---------------------------- MODULE Spec2Model ----------------------------
(***************************************************************************)
(* A model of the relationship-graph service in src/server.js: the         *)
(* persons / relations tables behind the REST handlers, the handlers'      *)
(* database round-trips (each `await queryDatabase` is a suspension point  *)
(* at which other requests may run), the in-memory rate limiter and the    *)
(* in-memory admin session map.                                            *)
(*                                                                         *)
(* Strings are sequences of one-character strings, so that sanitizeInput,  *)
(* parseInt and the SQL collation are computed rather than assumed.        *)
(***************************************************************************)
EXTENDS Integers, Sequences, FiniteSets, TLC

VARIABLES
    persons,     \* table persons: persons[i] is the name of the row with id i
    relations,   \* table relations: a set of rows [id, from, to, source]
    nextRelId,   \* AUTO_INCREMENT counter of table relations
    backgrounds, \* table person_backgrounds: person_id -> [birth_year, body]
    reqs,        \* HTTP requests in flight: slot -> handler position and locals
    resp,        \* the response sent last
    now,         \* Date.now(), in milliseconds
    requests,    \* rateLimit's closure map: client address -> timestamps
    sessions,    \* the sessions Map: token -> [username, createdAt]
    nextToken,   \* the tokens generateSessionToken has handed out so far
    minted,      \* history: token -> time of the login that minted it
    loggedOut,   \* history: tokens POST /api/admin/logout was called with
    sent,        \* history: per route and client, the requests sent so far
    config,      \* config.js as the process loaded it
    boot         \* startServer: its position, the pool connections it holds

vars == <<persons, relations, nextRelId, backgrounds, reqs, resp, now, requests,
          sessions, nextToken, minted, loggedOut, sent, config, boot>>

dbVars   == <<persons, relations, nextRelId, backgrounds>>
rateVars == <<requests, sent>>
sessVars == <<sessions, nextToken, minted, loggedOut>>
procVars == <<config, boot>>

\* config.api.key of a server that was set up as config.js.example tells
ApiKey == "k1"

\* the configuration the routes are modelled under
Configured == [apiKey |-> ApiKey]

\* startServer has run: the connection test succeeded, its connection went
\* back to the pool and the server listens
Listening == [pc |-> "listening", held |-> 0, tested |-> "ok"]

-----------------------------------------------------------------------------
(* Bounds of the model *)

\* number of request slots: how many requests may be in flight at once
MaxReqs == 2
\* number of persons stored before the edge handlers run (ids 1..NumPersons)
NumPersons == 3
\* largest AUTO_INCREMENT id the relations table hands out
MaxRelId == 2
\* largest number of rows of the persons table
MaxPersons == 2
\* maxRequests of the rate-limited route of the model (the routes of
\* server.js allow 20, 30 or 50)
RateMaxRequests == 2
\* how far the clock moves in one step, in milliseconds
TickMs == 24500
\* the clock stops here
MaxNowMs == 75000
\* how many requests one client sends to a rate-limited route
MaxSent == 5
\* how many sessions are minted
MaxTokens == 2
\* how many steps the clock of the session model takes
MaxSessionTicks == 4

Slots == 1..MaxReqs

-----------------------------------------------------------------------------
(* Strings *)

\* String.prototype.toLowerCase on the characters the model uses
Lower(c) == IF c = "A" THEN "a" ELSE IF c = "S" THEN "s" ELSE c

LowerStr(s) == [i \in 1..Len(s) |-> Lower(s[i])]

\* \w of a JavaScript regular expression
IsWordChar(c) ==
    c \in {"a", "b", "c", "i", "p", "r", "s", "t", "A", "S", "x", "y",
           "0", "1", "2", "3", "4", "5", "6", "7", "8", "9", "_"}

IsSpace(c) == c = " "

\* does s hold pat at position i, ignoring case (the regex flag i)
StartsWithAt(s, i, pat) ==
    /\ i + Len(pat) - 1 <= Len(s)
    /\ LowerStr(SubSeq(s, i, i + Len(pat) - 1)) = pat

ScriptOpen  == <<"<", "s", "c", "r", "i", "p", "t">>
ScriptClose == <<"<", "/", "s", "c", "r", "i", "p", "t", ">">>


\* where the match of /<script\b[^<]*(?:(?!<\/script>)<[^<]*)*<\/script>/i that
\* starts at i ends, or 0 when none starts there: every "<" that does not open
\* "</script>" is consumed, so the match ends with the first "</script>"
ScriptMatchEnd(s, i) ==
    IF /\ StartsWithAt(s, i, ScriptOpen)
       /\ i + 7 <= Len(s)
       /\ ~IsWordChar(s[i + 7])
    THEN LET closes == {k \in (i + 7)..Len(s) : StartsWithAt(s, k, ScriptClose)}
         IN  IF closes = {} THEN 0
             ELSE (CHOOSE k \in closes : \A m \in closes : k <= m) + 8
    ELSE 0

RECURSIVE StripScriptsFrom(_, _)
StripScriptsFrom(s, i) ==
    IF i > Len(s) THEN <<>>
    ELSE LET e == ScriptMatchEnd(s, i)
         IN  IF e > 0 THEN StripScriptsFrom(s, e + 1)
             ELSE <<s[i]>> \o StripScriptsFrom(s, i + 1)

\* .replace(/<script...<\/script>/gi, '')
StripScripts(s) == StripScriptsFrom(s, 1)

\* where the match of /<[^>]+>/ that starts at i ends, or 0
TagMatchEnd(s, i) ==
    IF /\ s[i] = "<"
       /\ i + 1 <= Len(s)
       /\ s[i + 1] # ">"
    THEN LET ends == {j \in (i + 2)..Len(s) : s[j] = ">"}
         IN  IF ends = {} THEN 0
             ELSE CHOOSE j \in ends : \A m \in ends : j <= m
    ELSE 0

RECURSIVE StripTagsFrom(_, _)
StripTagsFrom(s, i) ==
    IF i > Len(s) THEN <<>>
    ELSE LET e == TagMatchEnd(s, i)
         IN  IF e > 0 THEN StripTagsFrom(s, e + 1)
             ELSE <<s[i]>> \o StripTagsFrom(s, i + 1)

\* .replace(/<[^>]+>/g, '')
StripTags(s) == StripTagsFrom(s, 1)

RECURSIVE TrimStart(_)
TrimStart(s) ==
    IF s # <<>> /\ IsSpace(Head(s)) THEN TrimStart(Tail(s)) ELSE s

RECURSIVE TrimEnd(_)
TrimEnd(s) ==
    IF s # <<>> /\ IsSpace(s[Len(s)])
    THEN TrimEnd(SubSeq(s, 1, Len(s) - 1)) ELSE s

\* String.prototype.trim
Trim(s) == TrimEnd(TrimStart(s))

\* sanitizeInput on a string (every input of the model is a string)
sanitizeInput(input) == Trim(StripTags(StripScripts(input)))

-----------------------------------------------------------------------------
(* Numbers *)

DigitChars == <<"0", "1", "2", "3", "4", "5", "6", "7", "8", "9">>

IsDigit(c) == \E k \in 1..10 : DigitChars[k] = c

DigitVal(c) == (CHOOSE k \in 1..10 : DigitChars[k] = c) - 1

\* the value of the longest run of decimal digits at the head of s
RECURSIVE DigitPrefix(_, _)
DigitPrefix(s, acc) ==
    IF s # <<>> /\ IsDigit(Head(s))
    THEN DigitPrefix(Tail(s), 10 * acc + DigitVal(Head(s)))
    ELSE acc

\* parseInt(string) in radix 10: leading white space, an optional sign, then
\* the digits up to the first character that is none; NaN when there is no digit
ParseInt(s) ==
    LET t == TrimStart(s)
        signed == t # <<>> /\ t[1] \in {"-", "+"}
        u == IF signed THEN Tail(t) ELSE t
    IN  IF u = <<>> \/ ~IsDigit(u[1])
        THEN [nan |-> TRUE, n |-> 0]
        ELSE [nan |-> FALSE,
              n |-> IF signed /\ t[1] = "-" THEN 0 - DigitPrefix(u, 0)
                    ELSE DigitPrefix(u, 0)]

MaxInt32 == 2147483647

\* validateId throws for NaN, for an id <= 0 and for an id above the INT column
ValidateIdThrows(id) ==
    LET numId == ParseInt(id)
    IN  numId.nan \/ numId.n <= 0 \/ numId.n > MaxInt32

\* validateId's return value when it does not throw
validateId(id) == ParseInt(id).n

-----------------------------------------------------------------------------
(* The store: tables persons and relations of db.sql *)

\* request bodies' id fields: strings that pass validateInput's numberRange
IdInputs == {<<"1">>, <<"2">>, <<"0", "2">>, <<"9">>}

\* request bodies' source fields
SourceInputs == {<<>>, <<" ", "y">>}

Idle == [pc |-> "idle"]

NoResponse == [op |-> "none", status |-> 0]

\* SELECT id FROM persons WHERE id = ?
PersonExists(id) == id \in DOMAIN persons

\* a plausible slip: the pair looked up in the direction given only
PairMatchOneWay(r, a, b) == r.from = a /\ r.to = b

\* WHERE (from_person_id = a AND to_person_id = b)
\*    OR (from_person_id = b AND to_person_id = a)
PairMatch(r, a, b) ==
    \/ r.from = a /\ r.to = b
    \/ r.from = b /\ r.to = a

\* the rows of relations that statement's WHERE clause selects
PairRows(a, b) == {r \in relations : PairMatch(r, a, b)}

\* a plausible slip: the ids compared as the strings the body carried
SelfLoopByString(from, to) == from = to

\* if (fromId === toId), on the ids validateId returned
SelfLoop(from, to) == validateId(from) = validateId(to)

-----------------------------------------------------------------------------
(* POST /api/addEdge (upsert), from the handler's entry *)

\* the synchronous head of the handler: validateId, sanitizeInput, the
\* self-loop check; it ends by issuing the two persons queries
AddEdgeHead(s, from, to, source) ==
    /\ reqs[s].pc = "idle"
    /\ IF ValidateIdThrows(from) \/ ValidateIdThrows(to)
       THEN /\ resp' = [op |-> "addEdge", status |-> 500]
            /\ reqs' = reqs
       ELSE IF SelfLoop(from, to)
       THEN /\ resp' = [op |-> "addEdge", status |-> 400,
                        from |-> validateId(from), to |-> validateId(to)]
            /\ reqs' = reqs
       ELSE /\ reqs' = [reqs EXCEPT ![s] =
                  [op |-> "addEdge", pc |-> "persons",
                   fromId |-> validateId(from), toId |-> validateId(to),
                   source |-> sanitizeInput(source),
                   fromExists |-> "pending", toExists |-> "pending"]]
            /\ resp' = resp
    /\ UNCHANGED <<dbVars, now, procVars, sessVars>>

\* the handler of a request that the middleware in front of it let through
AddEdgeStart(s, from, to, source) ==
    /\ AddEdgeHead(s, from, to, source)
    /\ UNCHANGED rateVars

\* a plausible slip: the result of the persons query not looked at
PersonRowsFound(id) == "found"

\* the result of SELECT id FROM persons WHERE id = ?: rows found or none
PersonRows(id) == IF PersonExists(id) THEN "found" ELSE "none"

\* what follows Promise.all of the two persons queries
AddEdgeAfterPersons(s, fromExists, toExists) ==
    IF fromExists = "none"
    THEN /\ resp' = [op |-> "addEdge", status |-> 404,
                     from |-> reqs[s].fromId, to |-> reqs[s].toId,
                     missing |-> reqs[s].fromId]
         /\ reqs' = [reqs EXCEPT ![s] = Idle]
    ELSE IF toExists = "none"
    THEN /\ resp' = [op |-> "addEdge", status |-> 404,
                     from |-> reqs[s].fromId, to |-> reqs[s].toId,
                     missing |-> reqs[s].toId]
         /\ reqs' = [reqs EXCEPT ![s] = Idle]
    ELSE /\ reqs' = [reqs EXCEPT ![s] =
               [op |-> "addEdge", pc |-> "select",
                fromId |-> reqs[s].fromId, toId |-> reqs[s].toId,
                source |-> reqs[s].source]]
         /\ resp' = resp

\* the store answers SELECT id FROM persons WHERE id = fromId
AddEdgeFromExists(s) ==
    /\ reqs[s].pc = "persons"
    /\ reqs[s].fromExists = "pending"
    /\ IF reqs[s].toExists = "pending"
       THEN /\ reqs' = [reqs EXCEPT ![s].fromExists =
                           PersonRows(reqs[s].fromId)]
            /\ resp' = resp
       ELSE AddEdgeAfterPersons(s, PersonRows(reqs[s].fromId),
                                reqs[s].toExists)
    /\ UNCHANGED <<dbVars, now, rateVars, procVars, sessVars>>

\* the store answers SELECT id FROM persons WHERE id = toId
AddEdgeToExists(s) ==
    /\ reqs[s].pc = "persons"
    /\ reqs[s].toExists = "pending"
    /\ IF reqs[s].fromExists = "pending"
       THEN /\ reqs' = [reqs EXCEPT ![s].toExists =
                           PersonRows(reqs[s].toId)]
            /\ resp' = resp
       ELSE AddEdgeAfterPersons(s, reqs[s].fromExists,
                                PersonRows(reqs[s].toId))
    /\ UNCHANGED <<dbVars, now, rateVars, procVars, sessVars>>

\* the store answers the two-way SELECT; existingRelations[0] is any of the
\* rows found (the statement has no ORDER BY)
AddEdgeSelect(s) ==
    /\ reqs[s].pc = "select"
    /\ reqs[s].op = "addEdge"
    /\ LET existingRelations == PairRows(reqs[s].fromId, reqs[s].toId)
       IN  IF existingRelations # {}
           THEN \E existingRelation \in existingRelations :
                    reqs' = [reqs EXCEPT ![s] =
                        [op |-> "addEdge", pc |-> "update",
                         fromId |-> reqs[s].fromId, toId |-> reqs[s].toId,
                         source |-> reqs[s].source,
                         relationId |-> existingRelation.id]]
           ELSE reqs' = [reqs EXCEPT ![s].pc = "insert"]
    /\ UNCHANGED <<dbVars, resp, now, rateVars, procVars, sessVars>>

\* UPDATE relations SET source = ? WHERE id = ?
UpdateSource(id, source) ==
    {IF r.id = id THEN [r EXCEPT !.source = source] ELSE r : r \in relations}

\* the store runs the UPDATE and the handler reports 'updated'
AddEdgeUpdate(s) ==
    /\ reqs[s].pc = "update"
    /\ reqs[s].op = "addEdge"
    /\ relations' = UpdateSource(reqs[s].relationId, reqs[s].source)
    /\ resp' = [op |-> "addEdge", status |-> 200, id |-> reqs[s].relationId,
                from |-> reqs[s].fromId, to |-> reqs[s].toId,
                source |-> reqs[s].source, action |-> "updated"]
    /\ reqs' = [reqs EXCEPT ![s] = Idle]
    /\ UNCHANGED <<backgrounds, persons, nextRelId, now, rateVars, procVars, sessVars>>

\* INSERT INTO relations (from_person_id, to_person_id, source)
InsertRelation(from, to, source) ==
    relations \cup {[id |-> nextRelId, from |-> from, to |-> to,
                     source |-> source]}

\* the store runs the INSERT and the handler reports 'created'
AddEdgeInsert(s) ==
    /\ reqs[s].pc = "insert"
    /\ reqs[s].op = "addEdge"
    /\ nextRelId <= MaxRelId
    /\ relations' = InsertRelation(reqs[s].fromId, reqs[s].toId,
                                   reqs[s].source)
    /\ nextRelId' = nextRelId + 1
    /\ resp' = [op |-> "addEdge", status |-> 200, id |-> nextRelId,
                from |-> reqs[s].fromId, to |-> reqs[s].toId,
                source |-> reqs[s].source, action |-> "created"]
    /\ reqs' = [reqs EXCEPT ![s] = Idle]
    /\ UNCHANGED <<backgrounds, persons, now, rateVars, procVars, sessVars>>

-----------------------------------------------------------------------------
(* DELETE /api/deleteEdge, from the handler's entry *)

DeleteEdgeHead(s, from, to) ==
    /\ reqs[s].pc = "idle"
    /\ IF ValidateIdThrows(from) \/ ValidateIdThrows(to)
       THEN /\ resp' = [op |-> "deleteEdge", status |-> 500]
            /\ reqs' = reqs
       ELSE IF SelfLoop(from, to)
       THEN /\ resp' = [op |-> "deleteEdge", status |-> 400]
            /\ reqs' = reqs
       ELSE /\ reqs' = [reqs EXCEPT ![s] =
                  [op |-> "deleteEdge", pc |-> "delete",
                   fromId |-> validateId(from), toId |-> validateId(to)]]
            /\ resp' = resp
    /\ UNCHANGED <<dbVars, now, procVars, sessVars>>

\* the handler of a request that the middleware in front of it let through
DeleteEdgeStart(s, from, to) ==
    /\ DeleteEdgeHead(s, from, to)
    /\ UNCHANGED rateVars

\* a plausible slip: the statement ends with LIMIT 1
DeleteRelationsLimit1(a, b) ==
    IF PairRows(a, b) = {} THEN relations
    ELSE relations \ {CHOOSE r \in PairRows(a, b) :
                          \A q \in PairRows(a, b) : r.id <= q.id}

\* DELETE FROM relations WHERE (from = ? AND to = ?) OR (from = ? AND to = ?)
DeleteRelations(a, b) == relations \ PairRows(a, b)

\* the store runs the DELETE; affectedRows decides between 404 and success
DeleteEdgeExec(s) ==
    /\ reqs[s].pc = "delete"
    /\ relations' = DeleteRelations(reqs[s].fromId, reqs[s].toId)
    /\ LET affectedRows == Cardinality(relations) - Cardinality(relations')
       IN  resp' = IF affectedRows = 0
                   THEN [op |-> "deleteEdge", status |-> 404,
                         from |-> reqs[s].fromId, to |-> reqs[s].toId]
                   ELSE [op |-> "deleteEdge", status |-> 200,
                         from |-> reqs[s].fromId, to |-> reqs[s].toId,
                         deletedRows |-> affectedRows]
    /\ reqs' = [reqs EXCEPT ![s] = Idle]
    /\ UNCHANGED <<backgrounds, persons, nextRelId, now, rateVars, procVars, sessVars>>

-----------------------------------------------------------------------------
(* GET /api/graph *)

\* the handler issues both SELECTs at once (Promise.all)
GraphStart(s) ==
    /\ reqs[s].pc = "idle"
    /\ reqs' = [reqs EXCEPT ![s] =
           [op |-> "graph", pc |-> "graph",
            havePersons |-> FALSE, persons |-> <<>>,
            haveRelations |-> FALSE, relations |-> {}]]
    /\ UNCHANGED <<dbVars, resp, now, rateVars, procVars, sessVars>>

\* relations.filter(relation => relation.from_person_id && relation.to_person_id)
ValidRelations(rels) == {r \in rels : r.from # 0 /\ r.to # 0}

\* the ids added to connectedPersonIds
ConnectedPersonIds(rels) ==
    {r.from : r \in ValidRelations(rels)} \cup {r.to : r \in ValidRelations(rels)}

\* a plausible slip: the filter forgets connectedPersonIds
ConnectedPersonsUnfiltered(pers, rels) ==
    {i \in DOMAIN pers : i # 0 /\ pers[i] # <<>>}

\* persons.filter(person => person.id && person.name &&
\*                          connectedPersonIds.has(person.id.toString()))
ConnectedPersons(pers, rels) ==
    {i \in DOMAIN pers :
        i # 0 /\ pers[i] # <<>> /\ i \in ConnectedPersonIds(rels)}

\* nodes: {id, label} of the connected persons
GraphNodes(pers, rels) ==
    {[id |-> i, label |-> pers[i]] : i \in ConnectedPersons(pers, rels)}

\* edges: {id, from, to, source} of the valid relations
GraphEdges(rels) ==
    {[id |-> r.id, from |-> r.from, to |-> r.to, source |-> r.source] :
        r \in ValidRelations(rels)}

\* res.json({success, nodes, edges, ...}) once both results are in
GraphRespond(s, pers, rels) ==
    /\ resp' = [op |-> "graph", status |-> 200,
                nodes |-> GraphNodes(pers, rels), edges |-> GraphEdges(rels)]
    /\ reqs' = [reqs EXCEPT ![s] = Idle]

\* the store answers SELECT ... FROM persons ORDER BY id
GraphReadPersons(s) ==
    /\ reqs[s].pc = "graph"
    /\ ~reqs[s].havePersons
    /\ IF ~reqs[s].haveRelations
       THEN /\ reqs' = [reqs EXCEPT ![s].persons = persons,
                                    ![s].havePersons = TRUE]
            /\ resp' = resp
       ELSE GraphRespond(s, persons, reqs[s].relations)
    /\ UNCHANGED <<dbVars, now, rateVars, procVars, sessVars>>

\* the store answers SELECT ... FROM relations ORDER BY id
GraphReadRelations(s) ==
    /\ reqs[s].pc = "graph"
    /\ ~reqs[s].haveRelations
    /\ IF ~reqs[s].havePersons
       THEN /\ reqs' = [reqs EXCEPT ![s].relations = relations,
                                    ![s].haveRelations = TRUE]
            /\ resp' = resp
       ELSE GraphRespond(s, reqs[s].persons, relations)
    /\ UNCHANGED <<dbVars, now, rateVars, procVars, sessVars>>

-----------------------------------------------------------------------------
(* The edge handlers over a store that holds NumPersons persons *)

\* the name of the person with id i before any request: i letters
InitName(i) == [k \in 1..i |-> "a"]

InitEdges ==
    /\ persons = [i \in 1..NumPersons |-> InitName(i)]
    /\ relations = {}
    /\ nextRelId = 1
    /\ backgrounds = << >>
    /\ reqs = [s \in Slots |-> Idle]
    /\ resp = NoResponse
    /\ now = 0
    /\ requests = << >>
    /\ sessions = << >>
    /\ nextToken = 1
    /\ minted = << >>
    /\ loggedOut = {}
    /\ sent = << >>
    /\ config = Configured
    /\ boot = Listening

\* a request takes the lowest free slot: slots are only names of requests
FreeSlot(s) ==
    /\ reqs[s].pc = "idle"
    /\ \A u \in Slots : u < s => reqs[u].pc # "idle"

\* the (from, to) bodies of the requests that name two stored persons, or
\* the same id twice
StoredOrSelf ==
    {p \in IdInputs \X IdInputs :
        \/ ParseInt(p[1]).n = ParseInt(p[2]).n
        \/ ParseInt(p[1]).n \in 1..NumPersons
              /\ ParseInt(p[2]).n \in 1..NumPersons}

EdgeStart(s, bodies) ==
    /\ FreeSlot(s)
    /\ \/ \E p \in bodies, source \in SourceInputs :
              AddEdgeStart(s, p[1], p[2], source)
       \/ \E p \in bodies : DeleteEdgeStart(s, p[1], p[2])

EdgeStep(s) ==
    \/ AddEdgeFromExists(s)
    \/ AddEdgeToExists(s)
    \/ AddEdgeSelect(s)
    \/ AddEdgeUpdate(s)
    \/ AddEdgeInsert(s)
    \/ DeleteEdgeExec(s)

GraphStep(s) ==
    \/ FreeSlot(s) /\ GraphStart(s)
    \/ GraphReadPersons(s)
    \/ GraphReadRelations(s)

\* requests for stored persons arrive at any time and interleave at their
\* database round-trips
Next == \E s \in Slots : EdgeStart(s, StoredOrSelf) \/ EdgeStep(s)

Spec == InitEdges /\ [][Next]_vars

\* no request is in flight
Quiet == \A s \in Slots : reqs[s].pc = "idle"

\* any request, arriving only when the one before it has been answered
NextSeq ==
    \E s \in Slots :
        (Quiet /\ EdgeStart(s, IdInputs \X IdInputs)) \/ EdgeStep(s)

SpecSeq == InitEdges /\ [][NextSeq]_vars

\* GET /api/graph overlapping the edge handlers, which follow one another
NextGraph ==
    \E s \in Slots :
        \/ (\A u \in Slots : reqs[u].pc # "idle" => reqs[u].op = "graph")
               /\ EdgeStart(s, StoredOrSelf)
        \/ EdgeStep(s)
        \/ GraphStep(s)

SpecGraph == InitEdges /\ [][NextGraph]_vars

-----------------------------------------------------------------------------
(* Properties of the edge handlers *)

\* the rows of a relations table that join the unordered pair {a, b}
RowsOfPair(rels, a, b) == {r \in rels : {r.from, r.to} = {a, b}}

\* a table with the sources left out: ids and stored directions
Directions(rels) == {[id |-> r.id, from |-> r.from, to |-> r.to] : r \in rels}

\* request s is answered in this step
Answered(s) == reqs[s].pc # "idle" /\ reqs'[s].pc = "idle"

C2_DeleteEitherDirection ==
    [][\A s \in Slots :
        (Answered(s) /\ reqs[s].op = "deleteEdge")
        => IF RowsOfPair(relations, reqs[s].fromId, reqs[s].toId) # {}
           THEN /\ resp'.op = "deleteEdge" /\ resp'.status = 200
                /\ RowsOfPair(relations', reqs[s].fromId, reqs[s].toId) = {}
           ELSE /\ resp'.op = "deleteEdge" /\ resp'.status = 404
                /\ relations' = relations]_vars

\* C2 witness: deleteEdge(2,1) succeeded on two rows, both stored as (1,2)
\* or one in each direction, and nothing is left of the pair
C2_Witness ==
    /\ resp.op = "deleteEdge" /\ resp.status = 200
    /\ resp.from = 2 /\ resp.to = 1
    /\ resp.deletedRows = 2
    /\ relations = {}

\* no row of relations joins a person to itself
NoSelfLoopRow == \A r \in relations : r.from # r.to

\* no addEdge request past its synchronous head names one id twice
NoSelfLoopInFlight ==
    \A s \in Slots :
        (reqs[s].pc # "idle" /\ reqs[s].op = "addEdge")
        => reqs[s].fromId # reqs[s].toId

\* every addEdge answer for a request that names one id twice is a 400
SelfLoopAnswered400 ==
    (resp.op = "addEdge" /\ resp.status # 500 /\ resp.from = resp.to)
    => resp.status = 400

\* C5: addEdge whose from and to parse to the same id is answered 400,
\* whether or not a person has that id, and never gets past its synchronous
\* head: no such request is ever in flight, none is answered otherwise, and no
\* row of relations ever joins a person to itself.
C5_SelfLoopRejected ==
    NoSelfLoopRow /\ NoSelfLoopInFlight /\ SelfLoopAnswered400

\* C5 witness: a row exists, and addEdge("02", "2") and addEdge("9", "9")
\* have been answered 400
C5_Witness ==
    /\ resp.op = "addEdge" /\ resp.status = 400
    /\ resp.from = resp.to
    /\ resp.from = 9 \/ resp.from = 2
    /\ relations # {}

\* the relations the graph request s answers from, in the step that answers it
GraphRelationsRead(s) ==
    IF reqs[s].haveRelations THEN reqs[s].relations ELSE relations

\* C6: in every answer of GET /api/graph each node is the from or the to of an
\* edge of the same answer, and an answer computed from an empty relations
\* table has no nodes and no edges although persons are stored.
C6_GraphNodesConnected ==
    [][\A s \in Slots :
        (Answered(s) /\ reqs[s].op = "graph")
        => (/\ resp'.op = "graph"
            /\ \A n \in resp'.nodes :
                   \E e \in resp'.edges : e.from = n.id \/ e.to = n.id
            /\ (GraphRelationsRead(s) = {} /\ Len(persons) > 0)
                   => (resp'.nodes = {} /\ resp'.edges = {}))]_vars

\* C6 witness: an answer with an edge between persons 1 and 2, both shown,
\* while person 3, stored and without relation, is not
C6_Witness ==
    /\ resp.op = "graph"
    /\ {n.id : n \in resp.nodes} = {1, 2}
    /\ resp.edges # {}
    /\ 3 \in DOMAIN persons

-----------------------------------------------------------------------------
(* POST /api/addNode and GET /api/persons *)

NameMaxLength == 100

\* request bodies' name fields: plain, padded, upper case, tagged, empty, and
\* a script block followed by text
NameInputs ==
    {<<"a">>, <<" ", "a">>, <<"A">>, <<"b">>, <<"<", "b", ">">>, <<>>,
     <<"<", "s", "c", "r", "i", "p", "t", ">", "x",
       "<", "/", "s", "c", "r", "i", "p", "t", ">", "b">>}

\* validateInput({required: ['name'], types: {name: 'string'},
\*                maxLength: {name: 100}}) on a body whose name is a string
AddNodeErrors(name) ==
    (IF name = <<>> THEN {"required"} ELSE {})
    \cup (IF name # <<>> /\ Len(name) > NameMaxLength THEN {"maxLength"} ELSE {})

\* name = ? under the column's collation utf8mb4_unicode_ci: letters compare
\* without case and trailing spaces do not count
NameEq(a, b) == TrimEnd(LowerStr(a)) = TrimEnd(LowerStr(b))

\* a plausible slip: the query is given the name as it arrived
ExistingPersonsRaw(name, cleanName) ==
    {i \in DOMAIN persons : NameEq(persons[i], name)}

\* SELECT id FROM persons WHERE name = cleanName
ExistingPersons(name, cleanName) ==
    {i \in DOMAIN persons : NameEq(persons[i], cleanName)}

\* validateInput, then the synchronous head of the handler, which ends by
\* issuing the SELECT
AddNodeHead(s, name) ==
    /\ reqs[s].pc = "idle"
    /\ IF AddNodeErrors(name) # {}
       THEN /\ resp' = [op |-> "addNode", status |-> 400,
                        details |-> AddNodeErrors(name)]
            /\ reqs' = reqs
       ELSE /\ reqs' = [reqs EXCEPT ![s] =
                  [op |-> "addNode", pc |-> "select", name |-> name,
                   cleanName |-> sanitizeInput(name)]]
            /\ resp' = resp
    /\ UNCHANGED <<dbVars, now, procVars, sessVars>>

\* the handler of a request that the middleware in front of it let through
AddNodeStart(s, name) ==
    /\ AddNodeHead(s, name)
    /\ UNCHANGED rateVars

\* the store answers the SELECT: 409 when a row was found, else the INSERT
\* is issued
AddNodeSelect(s) ==
    /\ reqs[s].pc = "select"
    /\ reqs[s].op = "addNode"
    /\ IF ExistingPersons(reqs[s].name, reqs[s].cleanName) # {}
       THEN /\ resp' = [op |-> "addNode", status |-> 409,
                        name |-> reqs[s].cleanName]
            /\ reqs' = [reqs EXCEPT ![s] = Idle]
       ELSE /\ reqs' = [reqs EXCEPT ![s].pc = "insert"]
            /\ resp' = resp
    /\ UNCHANGED <<dbVars, now, rateVars, procVars, sessVars>>

\* the store runs INSERT INTO persons; result.insertId is the new row's id
AddNodeInsert(s) ==
    /\ reqs[s].pc = "insert"
    /\ reqs[s].op = "addNode"
    /\ Len(persons) < MaxPersons
    /\ persons' = Append(persons, reqs[s].cleanName)
    /\ resp' = [op |-> "addNode", status |-> 200, id |-> Len(persons) + 1,
                name |-> reqs[s].cleanName]
    /\ reqs' = [reqs EXCEPT ![s] = Idle]
    /\ UNCHANGED <<backgrounds, relations, nextRelId, now, rateVars, procVars, sessVars>>

PersonsStart(s) ==
    /\ reqs[s].pc = "idle"
    /\ reqs' = [reqs EXCEPT ![s] = [op |-> "persons", pc |-> "read"]]
    /\ UNCHANGED <<dbVars, resp, now, rateVars, procVars, sessVars>>

\* persons.filter(person => person.id && person.name)
ValidPersons(pers) ==
    {[id |-> i, name |-> pers[i]] : i \in {k \in DOMAIN pers : k # 0 /\ pers[k] # <<>>}}

\* the store answers SELECT ... FROM persons ORDER BY name
PersonsRead(s) ==
    /\ reqs[s].pc = "read"
    /\ reqs[s].op = "persons"
    /\ resp' = [op |-> "persons", status |-> 200,
                persons |-> ValidPersons(persons)]
    /\ reqs' = [reqs EXCEPT ![s] = Idle]
    /\ UNCHANGED <<dbVars, now, rateVars, procVars, sessVars>>

InitNodes ==
    /\ persons = << >>
    /\ relations = {}
    /\ nextRelId = 1
    /\ backgrounds = << >>
    /\ reqs = [s \in Slots |-> Idle]
    /\ resp = NoResponse
    /\ now = 0
    /\ requests = << >>
    /\ sessions = << >>
    /\ nextToken = 1
    /\ minted = << >>
    /\ loggedOut = {}
    /\ sent = << >>
    /\ config = Configured
    /\ boot = Listening

NextNodes ==
    \E s \in Slots :
        \/ FreeSlot(s) /\ \E name \in NameInputs : AddNodeStart(s, name)
        \/ AddNodeSelect(s)
        \/ AddNodeInsert(s)
        \/ FreeSlot(s) /\ PersonsStart(s)
        \/ PersonsRead(s)

\* addNode and persons requests arrive at any time and interleave at their
\* database round-trips, over a persons table that starts empty
SpecNodes == InitNodes /\ [][NextNodes]_vars

\* C3: when the existence check of addNode runs while a stored person's name
\* is the request's sanitized name, the request is answered 409 there and then
\* and the persons table is as it was (persons are never deleted, so this
\* covers every name stored when the request arrived).
C3_DuplicateNameConflict ==
    [][\A s \in Slots :
        (/\ reqs[s].pc = "select" /\ reqs[s].op = "addNode"
         /\ reqs'[s] # reqs[s]
         /\ \E i \in DOMAIN persons : persons[i] = sanitizeInput(reqs[s].name))
        => (/\ resp' = [op |-> "addNode", status |-> 409,
                        name |-> sanitizeInput(reqs[s].name)]
            /\ reqs'[s] = Idle
            /\ persons' = persons)]_vars

\* C3 witness: "a" is stored once and a request was answered 409 for it
C3_Witness ==
    /\ resp.op = "addNode" /\ resp.status = 409 /\ resp.name = <<"a">>
    /\ persons = <<(<<"a">>)>>

\* C4: an addNode request whose name passed validation and was not found is
\* answered with the id of the row it inserted and the stored name, and every
\* later answer of GET /api/persons holds each stored person's id and name.
C4_AddedPersonListed ==
    [][\A s \in Slots :
        /\ (Answered(s) /\ reqs[s].op = "addNode" /\ reqs[s].pc = "insert")
           => (/\ resp'.status = 200
               /\ resp'.id \notin DOMAIN persons
               /\ resp'.id \in DOMAIN persons'
               /\ persons'[resp'.id] = resp'.name)
        /\ (Answered(s) /\ reqs[s].op = "persons")
           => \A i \in DOMAIN persons :
                 \E p \in resp'.persons : p.id = i /\ p.name = persons[i]]_vars

-----------------------------------------------------------------------------
(* rateLimit(windowMs, maxRequests) *)

\* the window every rate-limited route of server.js passes
RateWindowMs == 60000

\* the rate-limited routes of the model, each with a closure map of its own
RateRoutes == {"addEdge"}

\* req.ip
Clients == {"ip1", "ip2"}

\* Math.ceil(a / b) for a >= 0, b > 0
CeilDiv(a, b) == (a + b - 1) \div b

\* timestamp => now - timestamp < windowMs
WithinWindow(timestamp, t) == t - timestamp < RateWindowMs

\* clientRequests.filter(...)
RECURSIVE FilterValid(_, _)
FilterValid(clientRequests, t) ==
    IF clientRequests = <<>> THEN <<>>
    ELSE IF WithinWindow(Head(clientRequests), t)
         THEN <<Head(clientRequests)>> \o FilterValid(Tail(clientRequests), t)
         ELSE FilterValid(Tail(clientRequests), t)

\* the map's entry for a client, [] when requests.has(clientId) is false
ClientRequests(r, c) ==
    IF c \in DOMAIN requests[r] THEN requests[r][c] ELSE <<>>

\* a plausible slip: the timestamp is pushed before the ceiling is tested
RecordedAfterPushFirst(validRequests, t) == Append(validRequests, t)

\* validRequests after the middleware: now is pushed only when the request
\* is let through
RecordedAfter(validRequests, t) ==
    IF Len(validRequests) >= RateMaxRequests THEN validRequests
    ELSE Append(validRequests, t)

\* the retryAfter field of the 429 answer
RetryAfter(validRequests, t) == CeilDiv(RateWindowMs, 1000)

\* the whole middleware, which runs without suspension
RateLimit(r, c) ==
    LET validRequests == FilterValid(ClientRequests(r, c), now)
        limited == Len(validRequests) >= RateMaxRequests
        sentBefore == IF c \in DOMAIN sent[r] THEN sent[r][c] ELSE <<>>
    IN  /\ Len(sentBefore) < MaxSent
        /\ requests' = [requests EXCEPT ![r] =
               [k \in DOMAIN requests[r] \cup {c} |->
                   IF k = c THEN RecordedAfter(validRequests, now)
                   ELSE requests[r][k]]]
        /\ resp' = IF limited
                   THEN [op |-> "rateLimit", status |-> 429, route |-> r,
                         client |-> c, timestamp |-> now,
                         retryAfter |-> RetryAfter(validRequests, now)]
                   ELSE [op |-> "rateLimit", status |-> 0, route |-> r,
                         client |-> c, timestamp |-> now]
        /\ sent' = [sent EXCEPT ![r] =
               [k \in DOMAIN sent[r] \cup {c} |->
                   IF k = c
                   THEN Append(sentBefore, [t |-> now, passed |-> ~limited])
                   ELSE sent[r][k]]]
        /\ UNCHANGED <<dbVars, reqs, now, sessVars, procVars>>

\* time passes
Tick ==
    /\ now + TickMs <= MaxNowMs
    /\ now' = now + TickMs
    /\ UNCHANGED <<dbVars, reqs, resp, rateVars, procVars, sessVars>>

InitRate ==
    /\ persons = << >>
    /\ relations = {}
    /\ nextRelId = 1
    /\ backgrounds = << >>
    /\ reqs = [s \in Slots |-> Idle]
    /\ resp = NoResponse
    /\ now = 0
    /\ requests = [r \in RateRoutes |-> << >>]
    /\ sessions = << >>
    /\ nextToken = 1
    /\ minted = << >>
    /\ loggedOut = {}
    /\ sent = [r \in RateRoutes |-> << >>]
    /\ config = Configured
    /\ boot = Listening

NextRate ==
    \/ \E r \in RateRoutes, c \in Clients : RateLimit(r, c)
    \/ Tick

\* clients send requests to a rate-limited route while time passes
SpecRate == InitRate /\ [][NextRate]_vars

\* the requests a client has sent to a route, oldest first
SentBy(r, c) == IF c \in DOMAIN sent[r] THEN sent[r][c] ELSE <<>>

\* the requests before the k-th that lie less than a window before it
EarlierWithin(log, k) ==
    {j \in 1..(k - 1) : log[k].t - log[j].t < RateWindowMs}

\* those of them that were let through
PassedWithin(log, k) == {j \in EarlierWithin(log, k) : log[j].passed}

\* the last answer of the limiter is the last entry of the client's log
AnswerLogged ==
    resp.op = "rateLimit" =>
        LET log == SentBy(resp.route, resp.client)
        IN  /\ log # <<>>
            /\ log[Len(log)].t = resp.timestamp
            /\ log[Len(log)].passed = (resp.status # 429)

\* C7 as stated: of more than RateMaxRequests requests one client sends
\* within one window, every request beyond the RateMaxRequests-th is
\* answered 429, and a request sent after the window has slid past the
\* client's earlier accepted requests is not answered 429.
C7_ExcessRejected ==
    \A r \in RateRoutes, c \in Clients :
        LET log == SentBy(r, c)
        IN  \A k \in 1..Len(log) :
                /\ Cardinality(EarlierWithin(log, k)) >= RateMaxRequests
                      => ~log[k].passed
                /\ PassedWithin(log, k) = {} => log[k].passed

\* C7, amended: a request is answered 429 exactly when RateMaxRequests
\* requests of the same client were let through less than a window before
\* it; requests that were answered 429 do not count, so a request sent after
\* the window has slid past the client's accepted requests is let through.
C7_RejectedIffWindowFull ==
    /\ AnswerLogged
    /\ \A r \in RateRoutes, c \in Clients :
          LET log == SentBy(r, c)
          IN  \A k \in 1..Len(log) :
                  ~log[k].passed <=>
                      Cardinality(PassedWithin(log, k)) >= RateMaxRequests

\* a client was answered 429 and, less than a window later, let through,
\* the window having slid past its accepted requests
C7_Witness ==
    \E r \in RateRoutes, c \in Clients :
        LET log == SentBy(r, c)
        IN  \E j, k \in 1..Len(log) :
                /\ j < k
                /\ ~log[j].passed
                /\ log[k].passed
                /\ log[k].t - log[j].t < RateWindowMs
                /\ Cardinality({i \in 1..(j - 1) : log[i].passed})
                       >= RateMaxRequests

\* C8 as stated: the retryAfter of a 429 answer is the number of seconds,
\* rounded up, until the client's oldest recorded timestamp leaves the window.
C8_RetryAfterFromOldest ==
    (resp.op = "rateLimit" /\ resp.status = 429) =>
        resp.retryAfter =
            CeilDiv(ClientRequests(resp.route, resp.client)[1]
                        + RateWindowMs - resp.timestamp, 1000)

-----------------------------------------------------------------------------
(* Sessions: login, logout, requireAdminSession, requireSessionOrApiKey *)

SESSION_TIMEOUT == 24 * 60 * 60 * 1000

\* the clock of the session model moves by half the session timeout
SessionTickMs == SESSION_TIMEOUT \div 2

\* config.admin.username, config.admin.password, config.api.key
AdminUsername == "admin"
AdminPassword == "pw"

\* req.body of a login; "" stands for a missing field
UsernameInputs == {"", AdminUsername, "eve"}
PasswordInputs == {"", AdminPassword, "x"}

\* header x-session-token: NoToken stands for a missing header, a number
\* n >= 1 for the token generateSessionToken returned to the n-th successful
\* login (it draws 32 random bytes: no token is returned twice and none can
\* be guessed before it is minted), BogusToken for a token never minted
NoToken == 0
BogusToken == MaxTokens + 1
TokenInputs == {NoToken, BogusToken} \cup (1..MaxTokens)

\* the tokens a request can carry: none, a bogus one, or one minted earlier
KnownTokens == {NoToken, BogusToken} \cup (1..(nextToken - 1))

\* header x-api-key and query parameter key; "" stands for a missing one
KeyInputs == {"", ApiKey, "bad"}

\* a plausible slip: a session of exactly SESSION_TIMEOUT counted as expired
SessionExpiredAtLimit(session, t) == t - session.createdAt >= SESSION_TIMEOUT

\* a plausible slip: the age compared with twice the timeout
SessionExpiredLax(session, t) ==
    t - session.createdAt > 2 * SESSION_TIMEOUT

\* Date.now() - session.createdAt > SESSION_TIMEOUT
SessionExpired(session, t) == t - session.createdAt > SESSION_TIMEOUT

\* sessions.delete(token)
SessionsDelete(token) ==
    [k \in DOMAIN sessions \ {token} |-> sessions[k]]

\* the handler of POST /api/admin/login
LoginHandler(username, password) ==
    /\ IF username = "" \/ password = ""
       THEN /\ resp' = [op |-> "login", status |-> 400]
            /\ UNCHANGED sessVars
       ELSE IF username # AdminUsername \/ password # AdminPassword
       THEN /\ resp' = [op |-> "login", status |-> 401]
            /\ UNCHANGED sessVars
       ELSE /\ nextToken <= MaxTokens
            /\ sessions' = [k \in DOMAIN sessions \cup {nextToken} |->
                   IF k = nextToken
                   THEN [username |-> username, createdAt |-> now]
                   ELSE sessions[k]]
            /\ minted' = [k \in DOMAIN minted \cup {nextToken} |->
                   IF k = nextToken THEN now ELSE minted[k]]
            /\ nextToken' = nextToken + 1
            /\ resp' = [op |-> "login", status |-> 200, token |-> nextToken,
                        expiresIn |-> SESSION_TIMEOUT \div 1000]
            /\ UNCHANGED loggedOut

\* POST /api/admin/login
Login(username, password) ==
    /\ LoginHandler(username, password)
    /\ UNCHANGED <<dbVars, reqs, now, rateVars, procVars>>

\* POST /api/admin/logout
Logout(token) ==
    /\ IF token # NoToken
       THEN /\ sessions' = SessionsDelete(token)
            /\ loggedOut' = loggedOut \cup {token}
       ELSE UNCHANGED <<sessions, loggedOut>>
    /\ resp' = [op |-> "logout", status |-> 200]
    /\ UNCHANGED <<dbVars, reqs, now, rateVars, procVars, nextToken, minted>>

\* GET /api/admin/verify behind requireAdminSession
Verify(token) ==
    /\ IF token = NoToken \/ token \notin DOMAIN sessions
       THEN /\ resp' = [op |-> "verify", status |-> 401, token |-> token]
            /\ UNCHANGED sessions
       ELSE IF SessionExpired(sessions[token], now)
       THEN /\ sessions' = SessionsDelete(token)
            /\ resp' = [op |-> "verify", status |-> 401, token |-> token]
       ELSE /\ resp' = [op |-> "verify", status |-> 200, token |-> token,
                        username |-> sessions[token].username]
            /\ UNCHANGED sessions
    /\ UNCHANGED <<dbVars, reqs, now, rateVars, procVars, nextToken, minted, loggedOut>>

\* the session branch of requireSessionOrApiKey
GuardSessionValid(sessionToken) ==
    /\ sessionToken # NoToken
    /\ sessionToken \in DOMAIN sessions
    /\ now - sessions[sessionToken].createdAt <= SESSION_TIMEOUT

\* req.adminUser after the guard, "" when it was not set
GuardAdminUser(sessionToken) ==
    IF GuardSessionValid(sessionToken)
    THEN sessions[sessionToken].username ELSE ""

\* requireSessionOrApiKey: status 0 stands for next(); queryKey is the
\* request's query parameter key, which the guard does not read
requireSessionOrApiKey(sessionToken, apiKey, queryKey) ==
    /\ resp' = IF GuardSessionValid(sessionToken)
                  \/ (apiKey # "" /\ apiKey = ApiKey)
               THEN [op |-> "guard", status |-> 0,
                     adminUser |-> GuardAdminUser(sessionToken)]
               ELSE [op |-> "guard", status |-> 401]
    /\ UNCHANGED <<dbVars, reqs, now, rateVars, procVars, sessVars>>

\* cleanExpiredSessions, which a timer runs every hour
cleanExpiredSessions ==
    /\ sessions' = [k \in {x \in DOMAIN sessions :
                              ~SessionExpired(sessions[x], now)} |->
                       sessions[k]]
    /\ UNCHANGED <<dbVars, reqs, resp, now, rateVars, procVars,
                   nextToken, minted, loggedOut>>

\* time passes
SessionTick ==
    /\ now + SessionTickMs <= MaxSessionTicks * SessionTickMs
    /\ now' = now + SessionTickMs
    /\ UNCHANGED <<dbVars, reqs, resp, rateVars, procVars, sessVars>>

InitSess ==
    /\ persons = << >>
    /\ relations = {}
    /\ nextRelId = 1
    /\ backgrounds = << >>
    /\ reqs = [s \in Slots |-> Idle]
    /\ resp = NoResponse
    /\ now = 0
    /\ requests = [r \in RateRoutes |-> << >>]
    /\ sessions = << >>
    /\ nextToken = 1
    /\ minted = << >>
    /\ loggedOut = {}
    /\ sent = [r \in RateRoutes |-> << >>]
    /\ config = Configured
    /\ boot = Listening

NextSess ==
    \/ \E username \in UsernameInputs, password \in PasswordInputs :
          Login(username, password)
    \/ \E token \in KnownTokens : Logout(token)
    \/ \E token \in KnownTokens : Verify(token)
    \/ \E sessionToken \in KnownTokens, apiKey \in KeyInputs,
          queryKey \in KeyInputs :
          requireSessionOrApiKey(sessionToken, apiKey, queryKey)
    \/ cleanExpiredSessions
    \/ SessionTick

\* logins, logouts and guarded requests while time passes
SpecSess == InitSess /\ [][NextSess]_vars

\* the token was minted by a login, no logout was called with it and its age
\* is at most 24 hours
TokenGood(token) ==
    /\ token \in DOMAIN minted
    /\ token \notin loggedOut
    /\ now - minted[token] <= SESSION_TIMEOUT

\* C9: the session guard accepts a token minted by a successful login at
\* every moment within 24 hours of its creation while no logout was called
\* with it, and answers 401 on every use once its age exceeds 24 hours or
\* logout was called with it.
C9_SessionAcceptedUntilExpiryOrLogout ==
    [][\A token \in 1..MaxTokens :
        (Verify(token) /\ token \in DOMAIN minted)
            => /\ TokenGood(token) => resp'.status = 200
               /\ ~TokenGood(token) => resp'.status = 401]_vars

\* C9 witness: of two minted tokens the guard has just answered 401 for the
\* one that is older than 24 hours and was never logged out, while the other
\* is still good
C9_Witness ==
    /\ resp.op = "verify" /\ resp.status = 401
    /\ resp.token \in DOMAIN minted
    /\ resp.token \notin loggedOut
    /\ now - minted[resp.token] > SESSION_TIMEOUT
    /\ \E other \in DOMAIN minted :
          other # resp.token /\ TokenGood(other) /\ other \in DOMAIN sessions

\* C10 as stated: the combined guard lets a request through exactly when it
\* carries a valid unexpired session token or the correct static key in
\* header x-api-key or in query parameter key; with a valid session the
\* request is attributed to the session's user.
C10_GuardSessionOrKey ==
    [][\A sessionToken \in TokenInputs, apiKey \in KeyInputs,
         queryKey \in KeyInputs :
        requireSessionOrApiKey(sessionToken, apiKey, queryKey)
            => /\ resp'.status = 0 <=>
                     \/ GuardSessionValid(sessionToken)
                     \/ apiKey = ApiKey
                     \/ queryKey = ApiKey
               /\ GuardSessionValid(sessionToken)
                     => /\ resp'.status = 0
                        /\ resp'.adminUser = sessions[sessionToken].username
               /\ resp'.status # 0 => resp'.status = 401]_vars

-----------------------------------------------------------------------------
(* requireApiKey *)

\* a server whose config.js has no api.key
Unconfigured == [apiKey |-> ""]

\* header x-api-key: a string, "" when the header is missing
HeaderKeyInputs == {"", ApiKey, "bad"}

\* req.query.key as the query parser of express hands it over: undefined
\* without the parameter, a string for ?key=v, an array of strings for
\* ?key=v&key=w
QueryKeyInputs ==
    {[type |-> "undefined"],
     [type |-> "string", value |-> ""],
     [type |-> "string", value |-> ApiKey],
     [type |-> "string", value |-> "bad"],
     [type |-> "array", value |-> <<ApiKey, ApiKey>>]}

\* the requests a static-key route receives
KeyRequests ==
    {[op |-> "requireApiKey", pc |-> "received",
      headerKey |-> h, queryKey |-> q] :
        h \in HeaderKeyInputs, q \in QueryKeyInputs}

\* req.headers['x-api-key'] || req.query.key
ProvidedKey(headerKey, queryKey) ==
    IF headerKey # "" THEN [type |-> "string", value |-> headerKey]
    ELSE queryKey

\* !providedKey: undefined and the empty string are falsy, an array is not
KeyFalsy(providedKey) ==
    \/ providedKey.type = "undefined"
    \/ providedKey.type = "string" /\ providedKey.value = ""

\* providedKey !== config.api.key
KeyDiffers(providedKey, cfg) ==
    ~(providedKey.type = "string" /\ providedKey.value = cfg.apiKey)

\* the answer of requireApiKey, status 0 standing for next(); the 403 branch
\* calls providedKey.substring for its log line, which throws a TypeError
\* for an array and hands the request to the global error handler
requireApiKeyAnswer(cfg, headerKey, queryKey) ==
    LET providedKey == ProvidedKey(headerKey, queryKey)
    IN  IF cfg.apiKey = ""
        THEN [op |-> "requireApiKey", status |-> 500, error |-> "config"]
        ELSE IF KeyFalsy(providedKey)
        THEN [op |-> "requireApiKey", status |-> 401, error |-> "missing"]
        ELSE IF KeyDiffers(providedKey, cfg)
        THEN IF providedKey.type = "string"
             THEN [op |-> "requireApiKey", status |-> 403, error |-> "invalid"]
             ELSE [op |-> "requireApiKey", status |-> 500, error |-> "internal"]
        ELSE [op |-> "requireApiKey", status |-> 0, error |-> ""]

\* requireApiKey runs on a request
requireApiKey(s) ==
    /\ reqs[s].pc = "received"
    /\ reqs[s].op = "requireApiKey"
    /\ resp' = requireApiKeyAnswer(config, reqs[s].headerKey, reqs[s].queryKey)
    /\ reqs' = [reqs EXCEPT ![s] = Idle]
    /\ UNCHANGED <<dbVars, now, rateVars, sessVars, procVars>>

InitKey ==
    /\ persons = << >>
    /\ relations = {}
    /\ nextRelId = 1
    /\ backgrounds = << >>
    /\ reqs \in [Slots -> KeyRequests]
    /\ resp = NoResponse
    /\ now = 0
    /\ requests = [r \in RateRoutes |-> << >>]
    /\ sessions = << >>
    /\ nextToken = 1
    /\ minted = << >>
    /\ loggedOut = {}
    /\ sent = [r \in RateRoutes |-> << >>]
    /\ config \in {Configured, Unconfigured}
    /\ boot = Listening

NextKey == \E s \in Slots : requireApiKey(s)

\* requests with every combination of credentials, under either configuration
SpecKey == InitKey /\ [][NextKey]_vars

\* C11 as stated: requireApiKey answers 500 exactly when the server has no
\* key configured; otherwise 401 when no credential is supplied, 403 when
\* the supplied credential differs from the configured key, and it passes
\* the request on only when the supplied credential equals the key.
C11_FourOutcomes ==
    [][\A s \in Slots :
        (Answered(s) /\ reqs[s].op = "requireApiKey") =>
            LET providedKey == ProvidedKey(reqs[s].headerKey, reqs[s].queryKey)
                supplied == ~KeyFalsy(providedKey)
                equal == /\ providedKey.type = "string"
                         /\ providedKey.value = config.apiKey
            IN  /\ resp'.status \in {0, 401, 403, 500}
                /\ resp'.status = 500 <=> config.apiKey = ""
                /\ resp'.status = 401 <=> (config.apiKey # "" /\ ~supplied)
                /\ resp'.status = 403 <=>
                       (config.apiKey # "" /\ supplied /\ ~equal)
                /\ resp'.status = 0 <=>
                       (config.apiKey # "" /\ supplied /\ equal)]_vars

-----------------------------------------------------------------------------
(* POST /api/admin/login as clients reach it *)

\* the route has no middleware in front of its handler
LoginRoutes == {"login"}

\* a login attempt of a client: the route's whole chain, which is the
\* handler alone; the attempt is logged as let through when its answer is
\* not 429
LoginFrom(c, username, password) ==
    LET sentBefore == SentBy("login", c)
    IN  /\ Len(sentBefore) < MaxSent
        /\ LoginHandler(username, password)
        /\ sent' = [sent EXCEPT !["login"] =
               [k \in DOMAIN sent["login"] \cup {c} |->
                   IF k = c
                   THEN Append(sentBefore,
                               [t |-> now, passed |-> resp'.status # 429])
                   ELSE sent["login"][k]]]
        /\ UNCHANGED <<dbVars, reqs, now, requests, procVars>>

InitLogin ==
    /\ persons = << >>
    /\ relations = {}
    /\ nextRelId = 1
    /\ backgrounds = << >>
    /\ reqs = [s \in Slots |-> Idle]
    /\ resp = NoResponse
    /\ now = 0
    /\ requests = [r \in LoginRoutes |-> << >>]
    /\ sessions = << >>
    /\ nextToken = 1
    /\ minted = << >>
    /\ loggedOut = {}
    /\ sent = [r \in LoginRoutes |-> << >>]
    /\ config = Configured
    /\ boot = Listening

NextLogin ==
    \/ \E c \in Clients, username \in UsernameInputs,
          password \in PasswordInputs : LoginFrom(c, username, password)
    \/ Tick

\* clients try to log in while time passes
SpecLogin == InitLogin /\ [][NextLogin]_vars

\* C12 as stated: a login attempt of a client that already had the route's
\* ceiling of attempts let through within the window is answered 429
\* whatever its credentials are.
C12_LoginRateLimited ==
    \A c \in Clients :
        LET log == SentBy("login", c)
        IN  \A k \in 1..Len(log) :
                Cardinality(PassedWithin(log, k)) >= RateMaxRequests
                    => ~log[k].passed

-----------------------------------------------------------------------------
(* validateInput(schema) *)

\* maxLength of source in the schemas of addEdge and updateEdge
SourceMaxLength == 500

\* the schema POST /api/addEdge passes, which has rules of all four kinds
AddEdgeSchema ==
    [required |-> <<"from", "to">>,
     types |-> <<[field |-> "from", type |-> "string"],
                 [field |-> "to", type |-> "string"],
                 [field |-> "source", type |-> "string"]>>,
     maxLength |-> <<[field |-> "source", max |-> SourceMaxLength]>>,
     numberRange |-> <<[field |-> "from", min |-> 1, max |-> MaxInt32],
                       [field |-> "to", min |-> 1, max |-> MaxInt32]>>]

\* the rules of a schema in the order validateInput goes through them
SchemaRules(schema) ==
    [i \in 1..Len(schema.required) |->
        [rule |-> "required", field |-> schema.required[i]]]
    \o [i \in 1..Len(schema.types) |->
        [rule |-> "types", field |-> schema.types[i].field,
         type |-> schema.types[i].type]]
    \o [i \in 1..Len(schema.maxLength) |->
        [rule |-> "maxLength", field |-> schema.maxLength[i].field,
         max |-> schema.maxLength[i].max]]
    \o [i \in 1..Len(schema.numberRange) |->
        [rule |-> "numberRange", field |-> schema.numberRange[i].field,
         min |-> schema.numberRange[i].min,
         max |-> schema.numberRange[i].max]]

\* a field of the parsed JSON body: req.body[field]
Undefined == [type |-> "undefined"]
Null == [type |-> "null"]
Str(s) == [type |-> "string", value |-> s]
Num(n) == [type |-> "number", value |-> n]

\* typeof
TypeOf(v) == IF v.type = "null" THEN "object" ELSE v.type

\* parseFloat of a body field; the strings of the model hold no decimal
\* point and no exponent, for which parseFloat reads what parseInt reads
ParseFloat(v) ==
    IF v.type = "number" THEN [nan |-> FALSE, n |-> v.value]
    ELSE IF v.type = "string" THEN ParseInt(v.value)
    ELSE [nan |-> TRUE, n |-> 0]

\* the detail one rule pushes to errors, as a sequence of none or one
RuleError(r, body) ==
    LET v == body[r.field]
    IN  IF r.rule = "required"
        THEN IF v = Undefined \/ v = Null \/ v = Str(<<>>)
             THEN <<[rule |-> "required", field |-> r.field, why |-> ""]>>
             ELSE <<>>
        ELSE IF r.rule = "types"
        THEN IF v # Undefined /\ TypeOf(v) # r.type
             THEN <<[rule |-> "types", field |-> r.field,
                     why |-> TypeOf(v)]>>
             ELSE <<>>
        ELSE IF r.rule = "maxLength"
        THEN IF v.type = "string" /\ v.value # <<>> /\ Len(v.value) > r.max
             THEN <<[rule |-> "maxLength", field |-> r.field, why |-> ""]>>
             ELSE <<>>
        ELSE IF v = Undefined THEN <<>>
        ELSE IF ParseFloat(v).nan
        THEN <<[rule |-> "numberRange", field |-> r.field, why |-> "nan"]>>
        ELSE IF ParseFloat(v).n < r.min \/ ParseFloat(v).n > r.max
        THEN <<[rule |-> "numberRange", field |-> r.field, why |-> "range"]>>
        ELSE <<>>

\* a plausible slip: the middleware answers with the first violation
RECURSIVE CollectFirstError(_, _)
CollectFirstError(rules, body) ==
    IF rules = <<>> THEN <<>>
    ELSE IF RuleError(Head(rules), body) # <<>>
         THEN RuleError(Head(rules), body)
         ELSE CollectFirstError(Tail(rules), body)

\* errors after the four loops
RECURSIVE CollectErrors(_, _)
CollectErrors(rules, body) ==
    IF rules = <<>> THEN <<>>
    ELSE RuleError(Head(rules), body) \o CollectErrors(Tail(rules), body)

\* the answer of validateInput(schema), status 0 standing for next()
validateInputAnswer(schema, body) ==
    LET errors == CollectErrors(SchemaRules(schema), body)
    IN  IF Len(errors) > 0
        THEN [op |-> "validateInput", status |-> 400, error |-> "validation",
              details |-> errors, timestamp |-> now]
        ELSE [op |-> "validateInput", status |-> 0]

\* the fields a request body may hold
FromToInputs ==
    {Undefined, Null, Str(<<>>), Str(<<"1">>), Str(<<"0">>), Str(<<"x">>),
     Num(2), Num(0)}
SourceFieldInputs ==
    {Undefined, Str(<<>>), Str(<<"y">>), Num(7),
     Str([i \in 1..(SourceMaxLength + 1) |-> "y"])}

\* the bodies POST /api/addEdge receives
EdgeBodies ==
    {[op |-> "validateInput", pc |-> "received",
      body |-> [from |-> f, to |-> g, source |-> src]] :
        f \in FromToInputs, g \in FromToInputs, src \in SourceFieldInputs}

\* validateInput runs on a request
validateInput(s) ==
    /\ reqs[s].pc = "received"
    /\ reqs[s].op = "validateInput"
    /\ resp' = validateInputAnswer(AddEdgeSchema, reqs[s].body)
    /\ reqs' = [reqs EXCEPT ![s] = Idle]
    /\ UNCHANGED <<dbVars, now, rateVars, sessVars, procVars>>

InitValidate ==
    /\ persons = << >>
    /\ relations = {}
    /\ nextRelId = 1
    /\ backgrounds = << >>
    /\ \E b \in EdgeBodies :
          reqs = [s \in Slots |-> IF s = 1 THEN b ELSE Idle]
    /\ resp = NoResponse
    /\ now = 0
    /\ requests = [r \in RateRoutes |-> << >>]
    /\ sessions = << >>
    /\ nextToken = 1
    /\ minted = << >>
    /\ loggedOut = {}
    /\ sent = [r \in RateRoutes |-> << >>]
    /\ config = Configured
    /\ boot = Listening

NextValidate == \E s \in Slots : validateInput(s)

\* one request of every shape reaches validateInput
SpecValidate == InitValidate /\ [][NextValidate]_vars

\* the rule is violated by the body
RuleViolated(r, body) ==
    LET v == body[r.field]
    IN  \/ r.rule = "required" /\ v \in {Undefined, Null, Str(<<>>)}
        \/ r.rule = "types" /\ v # Undefined /\ TypeOf(v) # r.type
        \/ r.rule = "maxLength" /\ v.type = "string" /\ Len(v.value) > r.max
        \/ r.rule = "numberRange" /\ v # Undefined
              /\ (ParseFloat(v).nan \/ ParseFloat(v).n < r.min
                                    \/ ParseFloat(v).n > r.max)

\* C14: validateInput goes through every rule of the schema before it
\* answers: it passes the request on exactly when no rule is violated, and
\* its 400 answer lists one detail per violated rule, in the schema's order,
\* however many rules are violated.
C14_AllViolationsListed ==
    [][\A s \in Slots :
        (Answered(s) /\ reqs[s].op = "validateInput") =>
            LET rules == SchemaRules(AddEdgeSchema)
                violated == {i \in 1..Len(rules) :
                                RuleViolated(rules[i], reqs[s].body)}
            IN  /\ resp'.status = 0 <=> violated = {}
                /\ violated # {} =>
                      /\ resp'.status = 400
                      /\ Len(resp'.details) = Cardinality(violated)
                      /\ \A i \in violated :
                            \E j \in 1..Len(resp'.details) :
                                /\ resp'.details[j].rule = rules[i].rule
                                /\ resp'.details[j].field = rules[i].field
                                /\ Cardinality({k \in violated : k < i}) = j - 1
            ]_vars

\* C14 witness: a 400 answer that lists violations of three kinds of rule
C14_Witness ==
    /\ resp.op = "validateInput" /\ resp.status = 400
    /\ Len(resp.details) >= 4
    /\ Cardinality({resp.details[j].rule : j \in 1..Len(resp.details)}) >= 3

-----------------------------------------------------------------------------
(* POST /api/admin/logout *)

\* C13 as stated: logout is guarded by the session token: a request without
\* a valid unexpired session token is answered 401 and reports no successful
\* logout, and a request with a valid token removes exactly that token from
\* the session map.
C13_LogoutGuarded ==
    [][\A token \in TokenInputs :
        Logout(token) =>
            IF /\ token \in DOMAIN sessions
               /\ ~SessionExpired(sessions[token], now)
            THEN /\ resp'.status = 200
                 /\ sessions' = SessionsDelete(token)
            ELSE /\ resp'.status = 401
                 /\ sessions' = sessions]_vars

-----------------------------------------------------------------------------
(* Error responses *)

\* the answers with a status of 400 or more that src/server.js sends, each
\* with the line of its res.status(...).json({...}) and the keys of the
\* object literal it sends
ErrorAnswers ==
    {
     [line |-> 42, status |-> 400,
      by |-> "express.json error handler: malformed JSON",
      fields |-> {"error", "message"}],
     [line |-> 53, status |-> 413,
      by |-> "express.json error handler: body too large",
      fields |-> {"error", "message"}],
     [line |-> 96, status |-> 401,
      by |-> "requireAdminSession: no token",
      fields |-> {"error", "message", "timestamp"}],
     [line |-> 106, status |-> 401,
      by |-> "requireAdminSession: unknown token",
      fields |-> {"error", "message", "timestamp"}],
     [line |-> 116, status |-> 401,
      by |-> "requireAdminSession: expired",
      fields |-> {"error", "message", "timestamp"}],
     [line |-> 134, status |-> 400,
      by |-> "login: missing field",
      fields |-> {"error", "message", "timestamp"}],
     [line |-> 148, status |-> 401,
      by |-> "login: wrong credentials",
      fields |-> {"error", "message", "timestamp"}],
     [line |-> 176, status |-> 500,
      by |-> "login: exception",
      fields |-> {"error", "message", "timestamp"}],
     [line |-> 347, status |-> 400,
      by |-> "validateInput",
      fields |-> {"error", "details", "timestamp"}],
     [line |-> 363, status |-> 500,
      by |-> "requireApiKey: no key configured",
      fields |-> {"error", "message", "timestamp"}],
     [line |-> 373, status |-> 401,
      by |-> "requireApiKey: no credential",
      fields |-> {"error", "message", "timestamp"}],
     [line |-> 388, status |-> 403,
      by |-> "requireApiKey: wrong key",
      fields |-> {"error", "message", "timestamp"}],
     [line |-> 417, status |-> 429,
      by |-> "rateLimit",
      fields |-> {"error", "message", "retryAfter", "timestamp"}],
     [line |-> 511, status |-> 500,
      by |-> "GET /api/graph",
      fields |-> {"error", "message", "timestamp"}],
     [line |-> 543, status |-> 500,
      by |-> "GET /api/persons",
      fields |-> {"error", "message", "timestamp"}],
     [line |-> 715, status |-> 401,
      by |-> "requireSessionOrApiKey",
      fields |-> {"error", "message", "timestamp"}],
     [line |-> 747, status |-> 400,
      by |-> "POST /api/background: birth_year",
      fields |-> {"error", "details", "timestamp"}],
     [line |-> 933, status |-> 409,
      by |-> "POST /api/addNode: name in use",
      fields |-> {"error", "message", "timestamp"}],
     [line |-> 956, status |-> 500,
      by |-> "POST /api/addNode",
      fields |-> {"error", "message", "timestamp"}],
     [line |-> 984, status |-> 400,
      by |-> "POST /api/addEdge: self loop",
      fields |-> {"error", "message", "timestamp"}],
     [line |-> 998, status |-> 404,
      by |-> "POST /api/addEdge: from missing",
      fields |-> {"error", "message", "timestamp"}],
     [line |-> 1006, status |-> 404,
      by |-> "POST /api/addEdge: to missing",
      fields |-> {"error", "message", "timestamp"}],
     [line |-> 1061, status |-> 500,
      by |-> "POST /api/addEdge",
      fields |-> {"error", "message", "timestamp"}],
     [line |-> 1089, status |-> 400,
      by |-> "PUT /api/updateEdge: self loop",
      fields |-> {"error", "message", "timestamp"}],
     [line |-> 1101, status |-> 404,
      by |-> "PUT /api/updateEdge: no relation",
      fields |-> {"error", "message", "timestamp"}],
     [line |-> 1122, status |-> 500,
      by |-> "PUT /api/updateEdge",
      fields |-> {"error", "message", "timestamp"}],
     [line |-> 1148, status |-> 400,
      by |-> "DELETE /api/deleteEdge: self loop",
      fields |-> {"error", "message", "timestamp"}],
     [line |-> 1160, status |-> 404,
      by |-> "DELETE /api/deleteEdge: no relation",
      fields |-> {"error", "message", "timestamp"}],
     [line |-> 1176, status |-> 500,
      by |-> "DELETE /api/deleteEdge",
      fields |-> {"error", "message", "timestamp"}],
     [line |-> 1358, status |-> 500,
      by |-> "GET /custom.png",
      fields |-> {"error"}],
     [line |-> 1364, status |-> 404,
      by |-> "unknown path",
      fields |-> {"error", "message", "timestamp"}],
     [line |-> 1387, status |-> 500,
      by |-> "global error handler",
      fields |-> {"error", "message", "timestamp"}],
     [line |-> 564, status |-> 404,
      by |-> "GET /api/person/:id/relations: 404",
      fields |-> {"error", "message", "timestamp"}],
     [line |-> 619, status |-> 500,
      by |-> "GET /api/person/:id/relations: 500",
      fields |-> {"error", "message", "timestamp"}],
     [line |-> 633, status |-> 400,
      by |-> "GET /api/background: 400",
      fields |-> {"error", "message", "timestamp"}],
     [line |-> 649, status |-> 404,
      by |-> "GET /api/background: 404",
      fields |-> {"error", "message", "timestamp"}],
     [line |-> 685, status |-> 500,
      by |-> "GET /api/background: 500",
      fields |-> {"error", "message", "timestamp"}],
     [line |-> 768, status |-> 404,
      by |-> "POST /api/background: 404",
      fields |-> {"error", "message", "timestamp"}],
     [line |-> 811, status |-> 500,
      by |-> "POST /api/background: 500",
      fields |-> {"error", "message", "timestamp"}],
     [line |-> 825, status |-> 400,
      by |-> "GET /api/relations: 400",
      fields |-> {"error", "message", "timestamp"}],
     [line |-> 842, status |-> 404,
      by |-> "GET /api/relations: 404",
      fields |-> {"error", "message", "timestamp"}],
     [line |-> 897, status |-> 500,
      by |-> "GET /api/relations: 500",
      fields |-> {"error", "message", "timestamp"}]}

\* a request fails in one of these ways and is answered
AnswerError(e) ==
    /\ resp' = [op |-> "error", status |-> e.status, by |-> e.by,
                line |-> e.line, fields |-> e.fields, at |-> now]
    /\ UNCHANGED <<dbVars, reqs, now, rateVars, sessVars, procVars>>

NextErrors ==
    \/ \E e \in ErrorAnswers : AnswerError(e)
    \/ Tick

\* failing requests of every kind while time passes
SpecErrors == InitRate /\ [][NextErrors]_vars

\* C15 as stated: every answer with a status of 400 or more is a JSON object
\* that holds error, message and timestamp; details is held only by the
\* answers to validation failures.
C15_ErrorEnvelope ==
    (resp.op = "error" /\ resp.status >= 400) =>
        /\ {"error", "message", "timestamp"} \subseteq resp.fields
        /\ "details" \in resp.fields =>
              resp.by \in {"validateInput", "POST /api/background: birth_year"}

-----------------------------------------------------------------------------
(* PUT /api/updateEdge, from the handler's entry *)

UpdateEdgeHead(s, from, to, source) ==
    /\ reqs[s].pc = "idle"
    /\ IF ValidateIdThrows(from) \/ ValidateIdThrows(to)
       THEN /\ resp' = [op |-> "updateEdge", status |-> 500]
            /\ reqs' = reqs
       ELSE IF SelfLoop(from, to)
       THEN /\ resp' = [op |-> "updateEdge", status |-> 400]
            /\ reqs' = reqs
       ELSE /\ reqs' = [reqs EXCEPT ![s] =
                  [op |-> "updateEdge", pc |-> "updateRows",
                   fromId |-> validateId(from), toId |-> validateId(to),
                   source |-> sanitizeInput(source)]]
            /\ resp' = resp
    /\ UNCHANGED <<dbVars, now, procVars, sessVars>>

\* UPDATE relations SET source = ? WHERE (from = ? AND to = ?) OR (...)
UpdateRelations(a, b, source) ==
    {IF PairMatch(r, a, b) THEN [r EXCEPT !.source = source] ELSE r :
        r \in relations}

\* the store runs the UPDATE; affectedRows, which counts the rows the WHERE
\* clause matched, decides between 404 and success
UpdateEdgeExec(s) ==
    /\ reqs[s].pc = "updateRows"
    /\ relations' = UpdateRelations(reqs[s].fromId, reqs[s].toId,
                                    reqs[s].source)
    /\ LET affectedRows == Cardinality(PairRows(reqs[s].fromId, reqs[s].toId))
       IN  resp' = IF affectedRows = 0
                   THEN [op |-> "updateEdge", status |-> 404]
                   ELSE [op |-> "updateEdge", status |-> 200,
                         updatedRows |-> affectedRows,
                         from |-> reqs[s].fromId, to |-> reqs[s].toId,
                         source |-> reqs[s].source]
    /\ reqs' = [reqs EXCEPT ![s] = Idle]
    /\ UNCHANGED <<backgrounds, persons, nextRelId, now, rateVars, procVars,
                   sessVars>>

-----------------------------------------------------------------------------
(* POST /api/background, from the handler's entry *)

\* parseInt of a body field
ParseIntOf(v) ==
    IF v.type = "number" THEN [nan |-> FALSE, n |-> v.value]
    ELSE IF v.type = "string" THEN ParseInt(v.value)
    ELSE [nan |-> TRUE, n |-> 0]

\* birth_year is left null for undefined, null and ''
BirthYearGiven(v) == v # Undefined /\ v # Null /\ v # Str(<<>>)

\* const { body = '' } = req.body, then sanitizeInput
CleanBody(v) == IF v = Undefined THEN <<>> ELSE sanitizeInput(v.value)

\* the synchronous head of the handler: validateId, the birth_year check,
\* sanitizeInput; it ends by issuing the persons query
BackgroundHead(s, body) ==
    /\ reqs[s].pc = "idle"
    /\ IF ValidateIdThrows(body.id.value)
       THEN /\ resp' = [op |-> "background", status |-> 500]
            /\ reqs' = reqs
       ELSE IF BirthYearGiven(body.birth_year)
               /\ ParseIntOf(body.birth_year).nan
       THEN /\ resp' = [op |-> "background", status |-> 400]
            /\ reqs' = reqs
       ELSE /\ reqs' = [reqs EXCEPT ![s] =
                  [op |-> "background", pc |-> "bgPerson",
                   personId |-> validateId(body.id.value),
                   birth_year |->
                       IF BirthYearGiven(body.birth_year)
                       THEN Num(ParseIntOf(body.birth_year).n) ELSE Null,
                   body |-> CleanBody(body.body)]]
            /\ resp' = resp
    /\ UNCHANGED <<dbVars, now, procVars, sessVars>>

\* the store answers SELECT id FROM persons WHERE id = ?
BackgroundPerson(s) ==
    /\ reqs[s].pc = "bgPerson"
    /\ IF PersonExists(reqs[s].personId)
       THEN /\ reqs' = [reqs EXCEPT ![s].pc = "bgSelect"]
            /\ resp' = resp
       ELSE /\ reqs' = [reqs EXCEPT ![s] = Idle]
            /\ resp' = [op |-> "background", status |-> 404]
    /\ UNCHANGED <<dbVars, now, rateVars, procVars, sessVars>>

\* the store answers SELECT person_id FROM person_backgrounds WHERE ...
BackgroundSelect(s) ==
    /\ reqs[s].pc = "bgSelect"
    /\ reqs' = [reqs EXCEPT ![s].pc =
           IF reqs[s].personId \in DOMAIN backgrounds
           THEN "bgUpdate" ELSE "bgInsert"]
    /\ UNCHANGED <<dbVars, resp, now, rateVars, procVars, sessVars>>

\* the row the handler writes
BackgroundRow(s) == [birth_year |-> reqs[s].birth_year, body |-> reqs[s].body]

\* the store runs the UPDATE and the handler reports 'updated'
BackgroundUpdate(s) ==
    /\ reqs[s].pc = "bgUpdate"
    /\ backgrounds' = [k \in DOMAIN backgrounds |->
           IF k = reqs[s].personId THEN BackgroundRow(s) ELSE backgrounds[k]]
    /\ resp' = [op |-> "background", status |-> 200, action |-> "updated",
                personId |-> reqs[s].personId]
    /\ reqs' = [reqs EXCEPT ![s] = Idle]
    /\ UNCHANGED <<persons, relations, nextRelId, now, rateVars, procVars,
                   sessVars>>

\* the store runs the INSERT, which the UNIQUE key on person_id refuses
\* when the person has a row by now, and the handler reports 'created'
BackgroundInsert(s) ==
    /\ reqs[s].pc = "bgInsert"
    /\ IF reqs[s].personId \in DOMAIN backgrounds
       THEN /\ backgrounds' = backgrounds
            /\ resp' = [op |-> "background", status |-> 500]
       ELSE /\ backgrounds' =
                  [k \in DOMAIN backgrounds \cup {reqs[s].personId} |->
                      IF k = reqs[s].personId THEN BackgroundRow(s)
                      ELSE backgrounds[k]]
            /\ resp' = [op |-> "background", status |-> 200,
                        action |-> "created", personId |-> reqs[s].personId]
    /\ reqs' = [reqs EXCEPT ![s] = Idle]
    /\ UNCHANGED <<persons, relations, nextRelId, now, rateVars, procVars,
                   sessVars>>

-----------------------------------------------------------------------------
(* The write routes behind their middleware *)

WriteRoutes == {"addNode", "addEdge", "deleteEdge", "updateEdge", "background"}

\* rateLimit is the first middleware of these routes; the other two have
\* their guard in front of it
RateFirstRoutes == {"addNode", "addEdge", "deleteEdge"}

\* the schema DELETE /api/deleteEdge passes
DeleteEdgeSchema ==
    [required |-> <<"from", "to">>,
     types |-> <<[field |-> "from", type |-> "string"],
                 [field |-> "to", type |-> "string"]>>,
     maxLength |-> <<>>,
     numberRange |-> <<[field |-> "from", min |-> 1, max |-> MaxInt32],
                       [field |-> "to", min |-> 1, max |-> MaxInt32]>>]

\* the range POST /api/background gives birth_year
MinBirthYear == 1900
MaxBirthYear == 2100

\* the schema POST /api/background passes
BackgroundSchema ==
    [required |-> <<"id">>,
     types |-> <<[field |-> "id", type |-> "string"],
                 [field |-> "body", type |-> "string"]>>,
     maxLength |-> <<>>,
     numberRange |-> <<[field |-> "id", min |-> 1, max |-> MaxInt32],
                       [field |-> "birth_year", min |-> MinBirthYear,
                        max |-> MaxBirthYear]>>]

\* the schema POST /api/addNode passes, for the name
AddNodeSchema ==
    [required |-> <<"name">>,
     types |-> <<[field |-> "name", type |-> "string"]>>,
     maxLength |-> <<[field |-> "name", max |-> NameMaxLength]>>,
     numberRange |-> <<>>]

\* PUT /api/updateEdge passes the schema of addEdge
SchemaOf(route) ==
    CASE route = "addNode" -> AddNodeSchema
      [] route = "deleteEdge" -> DeleteEdgeSchema
      [] route = "background" -> BackgroundSchema
      [] OTHER -> AddEdgeSchema

\* the bodies the write routes receive
RouteBodies(route) ==
    CASE route = "addNode" ->
            {[name |-> n] : n \in {Str(<<"b">>), Str(<<>>)}}
      [] route = "deleteEdge" ->
            {[from |-> f, to |-> g] :
                f \in {Str(<<"1">>), Str(<<"2">>), Undefined},
                g \in {Str(<<"1">>), Str(<<"2">>)}}
      [] route = "background" ->
            {[id |-> i, birth_year |-> y, body |-> b] :
                i \in {Str(<<"1">>), Str(<<"9">>), Undefined},
                y \in {Undefined, Num(1990), Str(<<"x">>)},
                b \in {Str(<<"y">>)}}
      [] OTHER ->
            {[from |-> f, to |-> g, source |-> src] :
                f \in {Str(<<"1">>), Undefined},
                g \in {Str(<<"1">>), Str(<<"2">>)},
                src \in {Undefined, Str(<<"y">>)}}

\* the credentials a request carries
ChainQueryKeys == {[type |-> "undefined"], [type |-> "string", value |-> ApiKey]}
Credentials(tokens) ==
    {cred \in [sessionToken : tokens, headerKey : HeaderKeyInputs,
               queryKey : ChainQueryKeys] :
        cred.headerKey = "" \/ cred.queryKey.type = "undefined"}

\* the answer of requireAdminSession, status 0 standing for next()
requireAdminSessionAnswer(token) ==
    IF token = NoToken \/ token \notin DOMAIN sessions
       \/ SessionExpired(sessions[token], now)
    THEN [op |-> "requireAdminSession", status |-> 401]
    ELSE [op |-> "requireAdminSession", status |-> 0]

\* the answer of requireSessionOrApiKey, status 0 standing for next()
requireSessionOrApiKeyAnswer(token, apiKey) ==
    IF GuardSessionValid(token) \/ (apiKey # "" /\ apiKey = ApiKey)
    THEN [op |-> "guard", status |-> 0]
    ELSE [op |-> "guard", status |-> 401]

\* a plausible slip: a route registered without its guard
GuardAnswerOpen(route, cred) == [op |-> "guard", status |-> 0]

\* the answer of the route's access-control guard
GuardAnswer(route, cred) ==
    CASE route = "updateEdge" -> requireAdminSessionAnswer(cred.sessionToken)
      [] route = "background" ->
            requireSessionOrApiKeyAnswer(cred.sessionToken, cred.headerKey)
      [] OTHER -> requireApiKeyAnswer(config, cred.headerKey, cred.queryKey)

\* the sessions map after the guard: requireAdminSession deletes the
\* session it finds expired
SessionsAfterGuard(route, cred) ==
    IF /\ route = "updateEdge"
       /\ cred.sessionToken \in DOMAIN sessions
       /\ SessionExpired(sessions[cred.sessionToken], now)
    THEN SessionsDelete(cred.sessionToken)
    ELSE sessions

\* validRequests.length >= maxRequests for the route's limiter
RateLimited(route, c) ==
    Len(FilterValid(ClientRequests(route, c), now)) >= RateMaxRequests

\* the closure maps after the route's limiter has run for the client
RequestsAfter(route, c) ==
    [requests EXCEPT ![route] =
        [k \in DOMAIN requests[route] \cup {c} |->
            IF k = c
            THEN RecordedAfter(FilterValid(ClientRequests(route, c), now), now)
            ELSE requests[route][k]]]

\* the 429 answer of the route's limiter
RateLimitAnswer(route, c) ==
    [op |-> "rateLimit", status |-> 429, route |-> route, client |-> c,
     timestamp |-> now,
     retryAfter |-> RetryAfter(FilterValid(ClientRequests(route, c), now), now)]

\* the string of a body field that validation found to be a string or absent
FieldString(v) == IF v = Undefined THEN <<>> ELSE v.value

\* the route's handler is entered
HandlerHead(route, s, body) ==
    CASE route = "addNode" -> AddNodeHead(s, body.name.value)
      [] route = "addEdge" ->
            AddEdgeHead(s, body.from.value, body.to.value,
                        FieldString(body.source))
      [] route = "deleteEdge" ->
            DeleteEdgeHead(s, body.from.value, body.to.value)
      [] route = "updateEdge" ->
            UpdateEdgeHead(s, body.from.value, body.to.value,
                           FieldString(body.source))
      [] OTHER -> BackgroundHead(s, body)

\* what the middleware in front of the handler answers, in the order the
\* route lists it; status 0 when all of it called next()
MiddlewareAnswer(route, c, cred, body) ==
    LET guard == GuardAnswer(route, cred)
        valid == validateInputAnswer(SchemaOf(route), body)
        limit == IF RateLimited(route, c) THEN RateLimitAnswer(route, c)
                 ELSE [op |-> "rateLimit", status |-> 0]
    IN  IF route \in RateFirstRoutes
        THEN IF limit.status # 0 THEN limit
             ELSE IF guard.status # 0 THEN guard ELSE valid
        ELSE IF guard.status # 0 THEN guard
             ELSE IF limit.status # 0 THEN limit ELSE valid

\* the request carries a credential that is valid for the route: the
\* configured key for the static-key routes, a good session token for
\* updateEdge, either of them for POST /api/background
HasCredential(route, cred) ==
    LET key == \/ cred.headerKey = config.apiKey
               \/ cred.queryKey = [type |-> "string", value |-> config.apiKey]
    IN  CASE route = "updateEdge" -> TokenGood(cred.sessionToken)
          [] route = "background" -> TokenGood(cred.sessionToken) \/ key
          [] OTHER -> key

\* the body violates no rule of the route's schema
PassesValidation(route, body) ==
    \A i \in 1..Len(SchemaRules(SchemaOf(route))) :
        ~RuleViolated(SchemaRules(SchemaOf(route))[i], body)

\* a request to a write route: its middleware and, when every middleware
\* called next(), the synchronous head of its handler; the log keeps
\* the request sent last, under its route: whether it carried a valid credential,
\* whether its body was valid, and whether the handler was entered
WriteRequest(route, s, c, cred, body) ==
    LET answer == MiddlewareAnswer(route, c, cred, body)
        limiterRuns == \/ route \in RateFirstRoutes
                       \/ GuardAnswer(route, cred).status = 0
    IN  /\ reqs[s].pc = "idle"
        /\ requests' = IF limiterRuns THEN RequestsAfter(route, c)
                       ELSE requests
        /\ sent' = [r \in DOMAIN sent |->
               IF r = route
               THEN [k \in {c} |->
                       <<[passed |-> answer.status = 0,
                          credential |-> HasCredential(route, cred),
                          valid |-> PassesValidation(route, body)]>>]
               ELSE << >>]
        /\ IF answer.status # 0
           THEN /\ resp' = answer
                /\ reqs' = reqs
                /\ sessions' = SessionsAfterGuard(route, cred)
                /\ UNCHANGED <<dbVars, now, procVars, nextToken, minted,
                               loggedOut>>
           ELSE HandlerHead(route, s, body)

\* the database round-trips of the handlers
WriteStep(s) ==
    \/ AddNodeSelect(s)
    \/ AddNodeInsert(s)
    \/ EdgeStep(s)
    \/ UpdateEdgeExec(s)
    \/ BackgroundPerson(s)
    \/ BackgroundSelect(s)
    \/ BackgroundUpdate(s)
    \/ BackgroundInsert(s)

\* the routes the clients of one behaviour call
RouteMixes ==
    {{"addNode"}, {"addEdge", "deleteEdge"}, {"addEdge", "updateEdge"},
     {"background"}}

\* some persons are stored and nobody has logged in; sent has a log for
\* each route the clients will call
InitWrite ==
    /\ \E n \in 1..MaxPersons : persons = [i \in 1..n |-> InitName(i)]
    /\ relations = {}
    /\ nextRelId = 1
    /\ backgrounds = << >>
    /\ reqs = [s \in Slots |-> Idle]
    /\ resp = NoResponse
    /\ now = 0
    /\ requests = [r \in WriteRoutes |-> << >>]
    /\ sessions = << >>
    /\ nextToken = 1
    /\ minted = << >>
    /\ loggedOut = {}
    /\ \E mix \in RouteMixes : sent = [r \in mix |-> << >>]
    /\ config = Configured
    /\ boot = Listening

\* the client all requests of this specification come from
WriteClient == "ip1"

NextWrite ==
    \/ \E route \in DOMAIN sent :
          /\ Quiet
          /\ \E cred \in Credentials(KnownTokens),
                body \in RouteBodies(route) :
                WriteRequest(route, 1, WriteClient, cred, body)
    \/ \E s \in Slots : WriteStep(s)
    \/ Quiet /\ Login(AdminUsername, AdminPassword)

\* requests to the write routes, one after the other, with any credentials
SpecWrite == InitWrite /\ [][NextWrite]_vars

\* the request the route's log holds
LastSent(route) == sent[route][WriteClient][1]

\* C16: the tables change only in a step of a handler that is running, and
\* a handler is entered only by a request that carries a valid credential
\* for its route and whose body passes the route's validation: a request to
\* addNode, addEdge, deleteEdge, updateEdge or POST /api/background without
\* a valid credential or with an invalid body issues no write.
C16_WritesBehindGuardAndValidation ==
    /\ [](\A route \in DOMAIN sent :
            (sent[route] # << >> /\ LastSent(route).passed) =>
                (LastSent(route).credential /\ LastSent(route).valid))
    /\ [](\A s \in Slots :
            reqs[s].pc # "idle" =>
                /\ reqs[s].op \in DOMAIN sent
                /\ sent[reqs[s].op] # << >>
                /\ LastSent(reqs[s].op).passed)
    /\ [][dbVars' # dbVars =>
             \E s \in Slots : reqs[s].pc # "idle" /\ reqs'[s] # reqs[s]]_vars

\* C16 witness: with a relation stored, a request has just been turned away
\* by the key guard and the tables are as they were
C16_Witness ==
    /\ relations # {}
    /\ resp.op = "requireApiKey" /\ resp.status = 403
    /\ Quiet

-----------------------------------------------------------------------------
\* startServer and testDatabaseConnection

\* the process has just called startServer()
Started == [pc |-> "getConnection", held |-> 0, tested |-> "none"]

\* mutant of AwaitedTest: app.listen without awaiting the test
AwaitedTestNot(b) == b.pc \in {"getConnection", "query", "resolved"}

\* await testDatabaseConnection() has returned
AwaitedTest(b) == b.pc = "resolved"

\* db.getConnection calls back with a connection, or with an error and
\* the promise is rejected
GetConnection ==
    /\ boot.pc = "getConnection"
    /\ \E err \in BOOLEAN :
          boot' = IF err
                  THEN [boot EXCEPT !.pc = "rejected",
                                    !.tested = "connectFailed"]
                  ELSE [boot EXCEPT !.pc = "query", !.held = boot.held + 1]
    /\ UNCHANGED <<dbVars, reqs, resp, now, rateVars, sessVars, config>>

\* the callback of connection.query('SELECT 1 as test'): the connection
\* is released, then the promise is rejected or resolved
TestQuery ==
    /\ boot.pc = "query"
    /\ \E err \in BOOLEAN :
          boot' = IF err
                  THEN [pc |-> "rejected", held |-> boot.held - 1,
                        tested |-> "queryFailed"]
                  ELSE [pc |-> "resolved", held |-> boot.held - 1,
                        tested |-> "ok"]
    /\ UNCHANGED <<dbVars, reqs, resp, now, rateVars, sessVars, config>>

\* app.listen(port, ...)
Listen ==
    /\ AwaitedTest(boot)
    /\ boot' = [boot EXCEPT !.pc = "listening"]
    /\ UNCHANGED <<dbVars, reqs, resp, now, rateVars, sessVars, config>>

\* catch (error) { process.exit(1) }
Exit ==
    /\ boot.pc = "rejected"
    /\ boot' = [boot EXCEPT !.pc = "exited"]
    /\ UNCHANGED <<dbVars, reqs, resp, now, rateVars, sessVars, config>>

\* the process starts with nothing stored in memory
InitBoot ==
    /\ persons = << >>
    /\ relations = {}
    /\ nextRelId = 1
    /\ backgrounds = << >>
    /\ reqs = [s \in Slots |-> Idle]
    /\ resp = NoResponse
    /\ now = 0
    /\ requests = [r \in RateRoutes |-> << >>]
    /\ sessions = << >>
    /\ nextToken = 1
    /\ minted = << >>
    /\ loggedOut = {}
    /\ sent = [r \in RateRoutes |-> << >>]
    /\ config = Configured
    /\ boot = Started

\* the socket is bound: requests reach the routes
Accepting == boot.pc = "listening"

NextBoot ==
    \/ GetConnection
    \/ TestQuery
    \/ Listen
    \/ Exit
    \/ Accepting /\ NextSess

\* the start of the process, then the session routes once it listens
SpecBoot == InitBoot /\ [][NextBoot]_vars

\* C17: the server listens, and a request is answered, only after the test
\* query succeeded; when the connection or the test query fails the process
\* exits and has answered no request; and once the test query has called
\* back, with or without an error, startServer holds no pool connection.
C17_ListenAfterTest ==
    /\ Accepting => boot.tested = "ok"
    /\ resp # NoResponse => (Accepting /\ boot.tested = "ok")
    /\ boot.tested \in {"connectFailed", "queryFailed"} =>
          (boot.pc \in {"rejected", "exited"} /\ resp = NoResponse)
    /\ boot.tested \in {"ok", "queryFailed"} => boot.held = 0

\* C17 witness: the test succeeded, the server listens and has answered a
\* login
C17_Witness ==
    /\ Accepting /\ boot.held = 0
    /\ resp # NoResponse /\ sessions # << >>

-----------------------------------------------------------------------------
\* GET /custom.png

\* the frame of a step of GET /custom.png
PngFrame == UNCHANGED <<dbVars, now, rateVars, sessVars, procVars>>

\* the response is sent; it records the state of the browser instance of
\* the request at that time
PngAnswer(s, status) ==
    /\ resp' = [op |-> "customPng", status |-> status,
                browser |-> reqs[s].browser]
    /\ reqs' = [reqs EXCEPT ![s] = Idle]
    /\ PngFrame

\* an awaited call of the handler: it rejects and the catch block answers
\* 500, or it resolves and the handler goes on
PngAwait(s, pc, next) ==
    /\ reqs[s].pc = pc
    /\ reqs[s].op = "customPng"
    /\ \/ PngAnswer(s, 500)
       \/ /\ reqs' = [reqs EXCEPT ![s].pc = next]
          /\ resp' = resp
          /\ PngFrame

\* the request arrives; req.setTimeout(0) and res.setTimeout(0) remove the
\* time limits of the socket
CustomPngStart(s) ==
    /\ FreeSlot(s)
    /\ reqs' = [reqs EXCEPT ![s] =
           [op |-> "customPng", pc |-> "pngQuery", browser |-> "none",
            page |-> "none"]]
    /\ resp' = resp
    /\ PngFrame

\* await Promise.all([queryDatabase(...), queryDatabase(...)])
PngQuery(s) == PngAwait(s, "pngQuery", "launch")

\* const browser = await puppeteer.launch({...})
PngLaunch(s) ==
    /\ reqs[s].pc = "launch"
    /\ \/ PngAnswer(s, 500)
       \/ /\ reqs' = [reqs EXCEPT ![s].pc = "newPage",
                                  ![s].browser = "open"]
          /\ resp' = resp
          /\ PngFrame

\* const page = await browser.newPage()
PngNewPage(s) == PngAwait(s, "newPage", "intercept")

\* await page.setRequestInterception(true)
PngIntercept(s) == PngAwait(s, "intercept", "setContent")

\* await page.setContent(htmlContent): the script of the page runs; it
\* schedules window.renderComplete = true, or it throws before that (the
\* echarts library did not load, echarts.init or setOption threw)
PngSetContent(s) ==
    /\ reqs[s].pc = "setContent"
    /\ \/ PngAnswer(s, 500)
       \/ /\ \E script \in {"scheduled", "threw"} :
                reqs' = [reqs EXCEPT ![s].pc = "viewport",
                                     ![s].page = script]
          /\ resp' = resp
          /\ PngFrame

\* the timer of the page fires: window.renderComplete = true
PngRenderComplete(s) ==
    /\ reqs[s].pc \in {"viewport", "wait"}
    /\ reqs[s].page = "scheduled"
    /\ reqs' = [reqs EXCEPT ![s].page = "complete"]
    /\ resp' = resp
    /\ PngFrame

\* await page.setViewport({...})
PngViewport(s) == PngAwait(s, "viewport", "wait")

\* await page.waitForFunction(() => window.renderComplete === true,
\* { timeout: 0 }) resolves once the page has set the flag
PngWait(s) ==
    /\ reqs[s].pc = "wait"
    /\ reqs[s].page = "complete"
    /\ reqs' = [reqs EXCEPT ![s].pc = "screenshot"]
    /\ resp' = resp
    /\ PngFrame

\* page.waitForFunction rejects: the page crashed or was closed
PngWaitRejects(s) ==
    /\ reqs[s].pc = "wait"
    /\ PngAnswer(s, 500)

\* const screenshot = await page.screenshot({...})
PngScreenshot(s) == PngAwait(s, "screenshot", "close")

\* await browser.close(), then res.end(screenshot); when close() rejects
\* the catch block answers 500
PngClose(s) ==
    /\ reqs[s].pc = "close"
    /\ \/ PngAnswer(s, 500)
       \/ /\ resp' = [op |-> "customPng", status |-> 200,
                      browser |-> "closed"]
          /\ reqs' = [reqs EXCEPT ![s] = Idle]
          /\ PngFrame

\* the server is up and nothing is stored
InitPng == InitSess

\* the steps of the handler that the server and the browser take by
\* themselves
PngStep(s) ==
    \/ PngQuery(s)
    \/ PngLaunch(s)
    \/ PngNewPage(s)
    \/ PngIntercept(s)
    \/ PngSetContent(s)
    \/ PngRenderComplete(s)
    \/ PngViewport(s)
    \/ PngWait(s)
    \/ PngScreenshot(s)
    \/ PngClose(s)

NextPng ==
    \/ \E s \in Slots : CustomPngStart(s)
    \/ \E s \in Slots : PngStep(s)
    \/ \E s \in Slots : PngWaitRejects(s)

\* requests to GET /custom.png
SpecPng == InitPng /\ [][NextPng]_vars

\* every awaited call settles and every timer of a page fires; a page does
\* not have to crash
SpecPngFair ==
    /\ SpecPng
    /\ \A s \in Slots :
          /\ WF_vars(PngQuery(s))
          /\ WF_vars(PngLaunch(s))
          /\ WF_vars(PngNewPage(s))
          /\ WF_vars(PngIntercept(s))
          /\ WF_vars(PngSetContent(s))
          /\ WF_vars(PngRenderComplete(s))
          /\ WF_vars(PngViewport(s))
          /\ WF_vars(PngWait(s))
          /\ WF_vars(PngScreenshot(s))
          /\ WF_vars(PngClose(s))

\* C18: when the response of a GET /custom.png request is sent, the browser
\* instance the request launched, if it launched one, has been closed.
C18_BrowserClosed ==
    resp.op = "customPng" => resp.browser \in {"none", "closed"}

\* C19: every GET /custom.png request is eventually answered.
C19_EveryRequestAnswered ==
    \A s \in Slots :
        (reqs[s].pc # "idle" /\ reqs[s].op = "customPng")
            ~> (reqs[s].pc = "idle")

-----------------------------------------------------------------------------
\* POST /api/addEdge (strict), the handler of the earlier server.js

\* req.body.from and req.body.to: absent, empty, numbers, strings of digits
StrictIdInputs ==
    {Undefined, Str(<<>>), Num(0), Num(1), Num(2), Str(<<"1">>),
     Str(<<"2">>), Str(<<"3">>), Str(<<"9">>)}

\* !v
Falsy(v) == v \in {Undefined, Null, Str(<<>>), Num(0)}

\* the number the store compares with an INT column, and stores in one,
\* for the parameter v
SqlId(v) == ParseIntOf(v).n

\* SELECT id FROM persons WHERE id IN (?, ?)
PersonsIn(a, b) == {id \in DOMAIN persons : id = a \/ id = b}

\* the synchronous head of the handler: the two checks on the body, then
\* the persons query is issued
StrictAddEdgeHead(s, from, to) ==
    /\ reqs[s].pc = "idle"
    /\ IF Falsy(from) \/ Falsy(to)
       THEN /\ resp' = [op |-> "addEdgeStrict", status |-> 400,
                        error |-> "required", from |-> from, to |-> to]
            /\ reqs' = reqs
       ELSE IF from = to
       THEN /\ resp' = [op |-> "addEdgeStrict", status |-> 400,
                        error |-> "self", from |-> from, to |-> to]
            /\ reqs' = reqs
       ELSE /\ reqs' = [reqs EXCEPT ![s] =
                  [op |-> "addEdgeStrict", pc |-> "strictPersons",
                   from |-> from, to |-> to]]
            /\ resp' = resp
    /\ UNCHANGED <<dbVars, now, rateVars, procVars, sessVars>>

\* the callback of the persons query
StrictAddEdgePersons(s) ==
    /\ reqs[s].pc = "strictPersons"
    /\ LET results == PersonsIn(SqlId(reqs[s].from), SqlId(reqs[s].to))
       IN  IF Cardinality(results) # 2
           THEN /\ resp' = [op |-> "addEdgeStrict", status |-> 400,
                            error |-> "persons",
                            from |-> reqs[s].from, to |-> reqs[s].to]
                /\ reqs' = [reqs EXCEPT ![s] = Idle]
           ELSE /\ reqs' = [reqs EXCEPT ![s].pc = "strictSelect"]
                /\ resp' = resp
    /\ UNCHANGED <<dbVars, now, rateVars, procVars, sessVars>>

\* the callback of the two-way SELECT on relations
StrictAddEdgeSelect(s) ==
    /\ reqs[s].pc = "strictSelect"
    /\ LET results == PairRows(SqlId(reqs[s].from), SqlId(reqs[s].to))
       IN  IF results # {}
           THEN /\ resp' = [op |-> "addEdgeStrict", status |-> 400,
                            error |-> "exists",
                            from |-> reqs[s].from, to |-> reqs[s].to]
                /\ reqs' = [reqs EXCEPT ![s] = Idle]
           ELSE /\ reqs' = [reqs EXCEPT ![s].pc = "strictInsert"]
                /\ resp' = resp
    /\ UNCHANGED <<dbVars, now, rateVars, procVars, sessVars>>

\* INSERT INTO relations (from_person_id, to_person_id) VALUES (?, ?), and
\* its callback; the source column takes its default
StrictAddEdgeInsert(s) ==
    /\ reqs[s].pc = "strictInsert"
    /\ nextRelId <= MaxRelId
    /\ relations' = InsertRelation(SqlId(reqs[s].from), SqlId(reqs[s].to),
                                   <<>>)
    /\ nextRelId' = nextRelId + 1
    /\ resp' = [op |-> "addEdgeStrict", status |-> 200, id |-> nextRelId,
                from |-> reqs[s].from, to |-> reqs[s].to]
    /\ reqs' = [reqs EXCEPT ![s] = Idle]
    /\ UNCHANGED <<backgrounds, persons, now, rateVars, procVars, sessVars>>

\* strict add-edge requests following one another
NextStrict ==
    \/ \E s \in Slots, from \in StrictIdInputs, to \in StrictIdInputs :
          Quiet /\ FreeSlot(s) /\ StrictAddEdgeHead(s, from, to)
    \/ \E s \in Slots : StrictAddEdgePersons(s)
    \/ \E s \in Slots : StrictAddEdgeSelect(s)
    \/ \E s \in Slots : StrictAddEdgeInsert(s)

SpecStrict == InitEdges /\ [][NextStrict]_vars

\* the request names two different stored persons
TwoPersons(from, to) ==
    /\ ~Falsy(from) /\ ~Falsy(to)
    /\ SqlId(from) # SqlId(to)
    /\ PersonExists(SqlId(from)) /\ PersonExists(SqlId(to))

\* C20: with requests following one another, when a strict add-edge
\* request naming two different stored persons is answered, then if a row
\* joins the pair in either direction the answer is the 400 'already
\* exists' conflict and the table is as it was, and if no row joins the pair
\* the answer is a success and the table has gained exactly one row, from
\* the first person to the second; and no request naming two different
\* stored persons is turned away by an earlier check.
C20_StrictConflictOrInsert ==
    /\ [](resp.op = "addEdgeStrict" /\ resp.status = 400
             /\ resp.error \in {"required", "self", "persons"}
          => ~TwoPersons(resp.from, resp.to))
    /\ [][\A s \in Slots :
            (/\ Answered(s)
             /\ reqs[s].op = "addEdgeStrict"
             /\ TwoPersons(reqs[s].from, reqs[s].to))
            => LET a == SqlId(reqs[s].from)
                   b == SqlId(reqs[s].to)
               IN  IF RowsOfPair(relations, a, b) # {}
                   THEN /\ resp'.status = 400 /\ resp'.error = "exists"
                        /\ relations' = relations
                   ELSE /\ resp'.status = 200
                        /\ relations \subseteq relations'
                        /\ Cardinality(relations') =
                              Cardinality(relations) + 1
                        /\ \A r \in relations' \ relations :
                              r.from = a /\ r.to = b /\ r.id = resp'.id]_vars

\* C20 witness: the pair 1, 2 was joined by a request from 1 to 2, and the
\* request from 2 to 1 that followed was rejected as existing
C20_Witness ==
    /\ relations = {[id |-> 1, from |-> 1, to |-> 2, source |-> <<>>]}
    /\ resp.op = "addEdgeStrict" /\ resp.status = 400
    /\ resp.error = "exists"
    /\ SqlId(resp.from) = 2 /\ SqlId(resp.to) = 1

-----------------------------------------------------------------------------
\* POST /api/addEdge with an endpoint that is not a stored person

\* the request in slot s names a person that is not stored
EndpointMissing(s) ==
    ~PersonExists(reqs[s].fromId) \/ ~PersonExists(reqs[s].toId)

\* C21: a POST /api/addEdge request with two distinct ids of which one is
\* not the id of a stored person never reaches the relations queries; when
\* it is answered the answer is 404, it names an id of the request that is
\* not stored (the from id when that one is missing), and the relations
\* table is as it was.
C21_MissingEndpoint404 ==
    /\ [](\A s \in Slots :
            (reqs[s].pc \in {"select", "update", "insert"}
             /\ reqs[s].op = "addEdge") => ~EndpointMissing(s))
    /\ [][\A s \in Slots :
            (/\ Answered(s)
             /\ reqs[s].op = "addEdge"
             /\ EndpointMissing(s))
            => (/\ resp'.op = "addEdge" /\ resp'.status = 404
                /\ resp'.from = reqs[s].fromId /\ resp'.to = reqs[s].toId
                /\ ~PersonExists(resp'.missing)
                /\ resp'.missing =
                      IF PersonExists(reqs[s].fromId)
                      THEN reqs[s].toId ELSE reqs[s].fromId
                /\ relations' = relations
                /\ nextRelId' = nextRelId)]_vars

\* C21 witness: a row is stored, and a request from a stored person to
\* person 9, who is not stored, was answered 404 naming 9
C21_Witness ==
    /\ relations # {}
    /\ resp.op = "addEdge" /\ resp.status = 404
    /\ PersonExists(resp.from) /\ resp.to = 9 /\ resp.missing = 9

-----------------------------------------------------------------------------
\* POST /api/addNode requests that overlap

\* C22: no two rows of the persons table have the same name.
C22_NamesUnique ==
    \A i \in DOMAIN persons, j \in DOMAIN persons :
        i # j => persons[i] # persons[j]

-----------------------------------------------------------------------------
\* POST /api/addEdge requests that overlap, with a record of the overlaps

\* the unordered pairs of the addEdge requests in flight
PairsInFlight ==
    {{reqs[u].fromId, reqs[u].toId} :
        u \in {v \in Slots : reqs[v].pc # "idle" /\ reqs[v].op = "addEdge"}}

\* as InitEdges; sent records the pairs for which an addEdge request
\* arrived while another addEdge request for the same pair was in flight
InitOverlap ==
    /\ persons = [i \in 1..NumPersons |-> InitName(i)]
    /\ relations = {}
    /\ nextRelId = 1
    /\ backgrounds = << >>
    /\ reqs = [s \in Slots |-> Idle]
    /\ resp = NoResponse
    /\ now = 0
    /\ requests = << >>
    /\ sessions = << >>
    /\ nextToken = 1
    /\ minted = << >>
    /\ loggedOut = {}
    /\ sent = {}
    /\ config = Configured
    /\ boot = Listening

\* an addEdge request arrives at any time
AddEdgeArrives(s, from, to, source) ==
    /\ FreeSlot(s)
    /\ AddEdgeHead(s, from, to, source)
    /\ requests' = requests
    /\ sent' = IF /\ reqs'[s].pc # "idle"
                  /\ {reqs'[s].fromId, reqs'[s].toId} \in PairsInFlight
               THEN sent \cup {{reqs'[s].fromId, reqs'[s].toId}}
               ELSE sent

NextOverlap ==
    \/ \E s \in Slots, p \in StoredOrSelf, source \in SourceInputs :
          AddEdgeArrives(s, p[1], p[2], source)
    \/ \E s \in Slots, p \in StoredOrSelf :
          FreeSlot(s) /\ DeleteEdgeStart(s, p[1], p[2])
    \/ \E s \in Slots : EdgeStep(s)

SpecOverlap == InitOverlap /\ [][NextOverlap]_vars

\* the unordered pairs of stored persons that two or more rows join
DuplicatedPairs ==
    {pair \in SUBSET DOMAIN persons :
        /\ Cardinality(pair) = 2
        /\ \E a \in pair, b \in pair :
              a # b /\ Cardinality(RowsOfPair(relations, a, b)) >= 2}

\* C23: an unordered pair is joined by two relation rows only if an addEdge
\* request for that pair arrived while another addEdge request for the same
\* pair was in flight; requests that run one after another never leave two
\* rows for one pair.
C23_DuplicateOnlyByOverlap == DuplicatedPairs \subseteq sent

\* C23 witness: two overlapping requests, addEdge(1,2) and addEdge(2,1),
\* have both inserted and the pair has two rows
C23_Witness ==
    /\ {1, 2} \in DuplicatedPairs
    /\ \E r \in relations : r.from = 1 /\ r.to = 2
    /\ \E r \in relations : r.from = 2 /\ r.to = 1
    /\ Quiet

-----------------------------------------------------------------------------
\* GET /api/person/:id/relations and GET /api/relations?id=

\* the two routes of the single-node query
RelationsRoutes == {"person", "relations"}

\* the id a request carries: req.params.id is a string that is not empty,
\* req.query.id may be absent or empty
RelationsIds(route) ==
    {Str(<<"1">>), Str(<<"2">>), Str(<<"3">>), Str(<<"9">>), Str(<<"x">>),
     Str(<<"0">>)}
        \cup IF route = "relations" THEN {Undefined, Str(<<>>)} ELSE {}

\* a plausible slip: only the rows that leave the person
TouchingRowsFrom(personId) == {r \in relations : r.from = personId}

\* SELECT ... FROM relations WHERE from_person_id = ? OR to_person_id = ?
TouchingRows(personId) ==
    {r \in relations : r.from = personId \/ r.to = personId}

\* neighborIdSet
NeighborIds(personId, rels) ==
    {r.to : r \in {x \in rels : x.from = personId}}
        \cup {r.from : r \in {x \in rels : x.to = personId}}

\* SELECT id, name, gender FROM persons WHERE id IN (...)
NeighborRows(ids) ==
    {[id |-> i, name |-> persons[i]] : i \in ids \cap DOMAIN persons}

\* res.json({success: true, person, degree, neighbors, edges})
RelationsRespond(s, neighbors) ==
    /\ resp' = [op |-> "personRelations", route |-> reqs[s].route,
                status |-> 200, id |-> reqs[s].id,
                person |-> reqs[s].personId,
                degree |-> Cardinality(reqs[s].rels),
                neighbors |-> neighbors, edges |-> reqs[s].rels]
    /\ reqs' = [reqs EXCEPT ![s] = Idle]

\* the synchronous head of the handler: the check for a missing id (on
\* GET /api/relations), then validateId, whose throw the catch block
\* answers with 500
RelationsStart(s, route, id) ==
    /\ reqs[s].pc = "idle"
    /\ IF route = "relations" /\ id \in {Undefined, Null, Str(<<>>)}
       THEN /\ resp' = [op |-> "personRelations", route |-> route,
                        status |-> 400, id |-> id]
            /\ reqs' = reqs
       ELSE IF ValidateIdThrows(id.value)
       THEN /\ resp' = [op |-> "personRelations", route |-> route,
                        status |-> 500, id |-> id]
            /\ reqs' = reqs
       ELSE /\ reqs' = [reqs EXCEPT ![s] =
                  [op |-> "personRelations", pc |-> "relPerson",
                   route |-> route, id |-> id,
                   personId |-> validateId(id.value)]]
            /\ resp' = resp
    /\ UNCHANGED <<dbVars, now, rateVars, procVars, sessVars>>

\* the store answers SELECT ... FROM persons WHERE id = ?
RelationsPerson(s) ==
    /\ reqs[s].pc = "relPerson"
    /\ IF ~PersonExists(reqs[s].personId)
       THEN /\ resp' = [op |-> "personRelations", route |-> reqs[s].route,
                        status |-> 404, id |-> reqs[s].id]
            /\ reqs' = [reqs EXCEPT ![s] = Idle]
       ELSE /\ reqs' = [reqs EXCEPT ![s].pc = "relRows"]
            /\ resp' = resp
    /\ UNCHANGED <<dbVars, now, rateVars, procVars, sessVars>>

\* the store answers the relations query; with no neighbour the response is
\* sent, otherwise the neighbours query is issued
RelationsRows(s) ==
    /\ reqs[s].pc = "relRows"
    /\ LET rels == TouchingRows(reqs[s].personId)
       IN  IF NeighborIds(reqs[s].personId, rels) = {}
           THEN /\ resp' = [op |-> "personRelations",
                            route |-> reqs[s].route,
                            status |-> 200, id |-> reqs[s].id,
                            person |-> reqs[s].personId,
                            degree |-> Cardinality(rels),
                            neighbors |-> {}, edges |-> rels]
                /\ reqs' = [reqs EXCEPT ![s] = Idle]
           ELSE /\ reqs' = [reqs EXCEPT ![s] =
                      [op |-> "personRelations", pc |-> "relNeighbors",
                       route |-> reqs[s].route, id |-> reqs[s].id,
                       personId |-> reqs[s].personId, rels |-> rels]]
                /\ resp' = resp
    /\ UNCHANGED <<dbVars, now, rateVars, procVars, sessVars>>

\* the store answers the neighbours query and the response is sent
RelationsNeighbors(s) ==
    /\ reqs[s].pc = "relNeighbors"
    /\ RelationsRespond(s,
          NeighborRows(NeighborIds(reqs[s].personId, reqs[s].rels)))
    /\ UNCHANGED <<dbVars, now, rateVars, procVars, sessVars>>

\* the rows a relations table may hold under id i: a row between two
\* different stored persons
RowsWithId(i) ==
    {[id |-> i, from |-> p[1], to |-> p[2],
      source |-> IF i = 1 THEN <<"y">> ELSE <<>>] :
        p \in {q \in (1..NumPersons) \X (1..NumPersons) : q[1] # q[2]}}

\* the relations tables that addEdge and deleteEdge requests leave: under
\* each id handed out so far no row or one row
RelationTables ==
    {rows \in SUBSET (UNION {RowsWithId(i) : i \in 1..MaxRelId}) :
        \A r \in rows, q \in rows : r.id = q.id => r = q}

InitRelations ==
    /\ persons = [i \in 1..NumPersons |-> InitName(i)]
    /\ relations \in RelationTables
    /\ nextRelId = MaxRelId + 1
    /\ backgrounds = << >>
    /\ reqs = [s \in Slots |-> Idle]
    /\ resp = NoResponse
    /\ now = 0
    /\ requests = << >>
    /\ sessions = << >>
    /\ nextToken = 1
    /\ minted = << >>
    /\ loggedOut = {}
    /\ sent = << >>
    /\ config = Configured
    /\ boot = Listening

NextRelations ==
    \/ \E s \in Slots, route \in RelationsRoutes :
          \E id \in RelationsIds(route) :
             FreeSlot(s) /\ RelationsStart(s, route, id)
    \/ \E s \in Slots : RelationsPerson(s)
    \/ \E s \in Slots : RelationsRows(s)
    \/ \E s \in Slots : RelationsNeighbors(s)

\* single-node queries over a store that holds some relations
SpecRelations == InitRelations /\ [][NextRelations]_vars

\* C24: a single-node query whose id fails ID validation is answered with
\* a 4xx status.
C24_InvalidIdClientError ==
    (/\ resp.op = "personRelations"
     /\ resp.id.type = "string"
     /\ ValidateIdThrows(resp.id.value))
        => resp.status \in 400..499

\* C25: a successful answer of the single-node query for person P has as
\* edges exactly the stored rows with P as from or as to, as degree their
\* number, and as neighbors exactly the persons at the other end of those
\* rows, each once.
C25_EdgesDegreeNeighbors ==
    (resp.op = "personRelations" /\ resp.status = 200) =>
        LET P == resp.person
        IN  /\ PersonExists(P)
            /\ resp.edges = {r \in relations : P \in {r.from, r.to}}
            /\ resp.degree = Cardinality(resp.edges)
            /\ {n.id : n \in resp.neighbors} =
                  {q \in DOMAIN persons :
                      \E r \in relations : {r.from, r.to} = {P, q}}
            /\ Cardinality(resp.neighbors) =
                  Cardinality({n.id : n \in resp.neighbors})
            /\ \A n \in resp.neighbors : n.name = persons[n.id]

\* C25 witness: person 1 has two rows with person 2, one in each
\* direction, and the answer lists both rows and the one neighbour
C25_Witness ==
    /\ resp.op = "personRelations" /\ resp.status = 200
    /\ resp.person = 1 /\ resp.degree = 2
    /\ \E r \in resp.edges : r.from = 1 /\ r.to = 2
    /\ \E r \in resp.edges : r.from = 2 /\ r.to = 1
    /\ Cardinality(resp.neighbors) = 1

-----------------------------------------------------------------------------
\* POST /api/background requests that overlap

\* bodies that pass the route's validateInput: an id in range, a birth
\* year in range or none, a body text
BackgroundBodies ==
    {[id |-> i, birth_year |-> y, body |-> b] :
        i \in {Str(<<"1">>), Str(<<"2">>), Str(<<"9">>)},
        y \in {Undefined, Num(1990)},
        b \in {Str(<<"y">>), Str(<<"z">>)}}

InitBackground ==
    /\ persons = [i \in 1..MaxPersons |-> InitName(i)]
    /\ relations = {}
    /\ nextRelId = 1
    /\ backgrounds = << >>
    /\ reqs = [s \in Slots |-> Idle]
    /\ resp = NoResponse
    /\ now = 0
    /\ requests = << >>
    /\ sessions = << >>
    /\ nextToken = 1
    /\ minted = << >>
    /\ loggedOut = {}
    /\ sent = << >>
    /\ config = Configured
    /\ boot = Listening

\* the handler of a request that the middleware in front of it let through
BackgroundStart(s, body) ==
    /\ FreeSlot(s)
    /\ BackgroundHead(s, body)
    /\ UNCHANGED rateVars

NextBackground ==
    \/ \E s \in Slots, body \in BackgroundBodies : BackgroundStart(s, body)
    \/ \E s \in Slots : BackgroundPerson(s)
    \/ \E s \in Slots : BackgroundSelect(s)
    \/ \E s \in Slots : BackgroundUpdate(s)
    \/ \E s \in Slots : BackgroundInsert(s)

\* requests arrive at any time and interleave at their database round-trips
SpecBackground == InitBackground /\ [][NextBackground]_vars

\* C26: no POST /api/background request with valid input is answered with
\* a server error.
C26_UpsertNeverFails ==
    resp.op = "background" => resp.status # 500

-----------------------------------------------------------------------------
\* POST /api/addEdge overlapping DELETE /api/deleteEdge

\* C27: when an addEdge request is answered with success, a relation row
\* that joins the pair of the request and carries its source exists at that
\* moment.
C27_SuccessMeansRowExists ==
    [][\A s \in Slots :
        (/\ Answered(s)
         /\ reqs[s].op = "addEdge"
         /\ resp'.op = "addEdge" /\ resp'.status = 200)
        => \E r \in RowsOfPair(relations', reqs[s].fromId, reqs[s].toId) :
               r.source = reqs[s].source]_vars

-----------------------------------------------------------------------------
\* GET /api/graph overlapping POST /api/addNode and POST /api/addEdge

\* one person is stored and no relation
InitGraphNodes ==
    /\ persons = [i \in 1..1 |-> InitName(i)]
    /\ relations = {}
    /\ nextRelId = 1
    /\ backgrounds = << >>
    /\ reqs = [s \in Slots |-> Idle]
    /\ resp = NoResponse
    /\ now = 0
    /\ requests = << >>
    /\ sessions = << >>
    /\ nextToken = 1
    /\ minted = << >>
    /\ loggedOut = {}
    /\ sent = << >>
    /\ config = Configured
    /\ boot = Listening

\* the ids and the name of the requests of this specification
GraphIdInputs == {<<"1">>, <<"2">>}
GraphNameInputs == {<<"b">>}

NextGraphNodes ==
    \/ \E s \in Slots : GraphStep(s)
    \/ \E s \in Slots, name \in GraphNameInputs :
          FreeSlot(s) /\ AddNodeStart(s, name)
    \/ \E s \in Slots : AddNodeSelect(s)
    \/ \E s \in Slots : AddNodeInsert(s)
    \/ \E s \in Slots, from \in GraphIdInputs, to \in GraphIdInputs,
          source \in SourceInputs :
          FreeSlot(s) /\ AddEdgeStart(s, from, to, source)
    \/ \E s \in Slots : AddEdgeFromExists(s) \/ AddEdgeToExists(s)
    \/ \E s \in Slots : AddEdgeSelect(s)
    \/ \E s \in Slots : AddEdgeUpdate(s)
    \/ \E s \in Slots : AddEdgeInsert(s)

\* graph, addNode and addEdge requests arrive at any time and interleave at
\* their database round-trips
SpecGraphNodes == InitGraphNodes /\ [][NextGraphNodes]_vars

\* C28: in every answer of GET /api/graph both endpoints of every edge are
\* among the nodes.
C28_EdgeEndpointsAreNodes ==
    resp.op = "graph" =>
        \A e \in resp.edges :
            /\ \E n \in resp.nodes : n.id = e.from
            /\ \E n \in resp.nodes : n.id = e.to

-----------------------------------------------------------------------------
\* two rate-limited routes, each with the closure map of its own
\* rateLimit(...) call

\* the routes of this specification and the client that calls them
LimitedRoutes == {"addEdge", "deleteEdge"}
RoutesClients == {"ip1"}

InitRoutes ==
    /\ persons = << >>
    /\ relations = {}
    /\ nextRelId = 1
    /\ backgrounds = << >>
    /\ reqs = [s \in Slots |-> Idle]
    /\ resp = NoResponse
    /\ now = 0
    /\ requests = [r \in LimitedRoutes |-> << >>]
    /\ sessions = << >>
    /\ nextToken = 1
    /\ minted = << >>
    /\ loggedOut = {}
    /\ sent = [r \in LimitedRoutes |-> << >>]
    /\ config = Configured
    /\ boot = Listening

NextRoutes ==
    \/ \E r \in LimitedRoutes, c \in RoutesClients : RateLimit(r, c)
    \/ Tick

\* a client calls two rate-limited routes while time passes
SpecRoutes == InitRoutes /\ [][NextRoutes]_vars

\* the times of the requests of a log that were let through, oldest first
RECURSIVE PassedTimes(_)
PassedTimes(log) ==
    IF log = <<>> THEN <<>>
    ELSE IF Head(log).passed
         THEN <<Head(log).t>> \o PassedTimes(Tail(log))
         ELSE PassedTimes(Tail(log))

\* C29: for each route and client the recorded list never holds more than
\* RateMaxRequests timestamps; of the requests let through, any
\* RateMaxRequests + 1 span at least RateWindowMs; and the recorded list of
\* a route holds exactly the times of the requests to that route that were
\* let through less than a window before the client's last request to that
\* route, whatever was sent to the other route.
C29_PerRouteCeiling ==
    \A r \in DOMAIN requests : \A c \in DOMAIN requests[r] :
        LET log == SentBy(r, c)
            passed == PassedTimes(log)
        IN  /\ Len(requests[r][c]) <= RateMaxRequests
            /\ \A k \in 1..(Len(passed) - RateMaxRequests) :
                  passed[k + RateMaxRequests] - passed[k] >= RateWindowMs
            /\ log # <<>>
            /\ requests[r][c] = FilterValid(passed, log[Len(log)].t)

\* C29 witness: the client has filled the window of addEdge and was
\* answered 429 there, and a request to deleteEdge at that same time was
\* let through
C29_Witness ==
    /\ resp.op = "rateLimit" /\ resp.status = 0 /\ resp.route = "deleteEdge"
    /\ LET log == SentBy("addEdge", resp.client)
       IN  /\ log # <<>>
           /\ ~log[Len(log)].passed
           /\ log[Len(log)].t = resp.timestamp
           /\ Len(requests["addEdge"][resp.client]) = RateMaxRequests

-----------------------------------------------------------------------------
\* the age of sessions

\* the session minted under token k is older than SESSION_TIMEOUT
OlderThanTimeout(k) == now - minted[k] > SESSION_TIMEOUT

\* C30: a stored session keeps the creation time it was minted with;
\* requireAdminSession lets a request through, and requireSessionOrApiKey
\* attributes a request to a session's user, only when the session of its
\* token is not older than SESSION_TIMEOUT, whether or not the sweep has
\* run and however often the token was used before; and a run of
\* cleanExpiredSessions removes only sessions older than SESSION_TIMEOUT
\* and leaves every other session as it was.
C30_ValidityFixedAtCreation ==
    /\ [](\A k \in DOMAIN sessions :
            k \in DOMAIN minted /\ sessions[k].createdAt = minted[k])
    /\ [][/\ (\A token \in TokenInputs :
                 (Verify(token) /\ resp'.status = 200)
                    => (token \in DOMAIN minted
                        /\ ~OlderThanTimeout(token)))
           /\ (\A sessionToken \in TokenInputs, apiKey \in KeyInputs,
                  queryKey \in KeyInputs :
                 (requireSessionOrApiKey(sessionToken, apiKey, queryKey)
                    /\ resp'.status = 0 /\ resp'.adminUser # "")
                    => (sessionToken \in DOMAIN minted
                        /\ ~OlderThanTimeout(sessionToken)))
           /\ (cleanExpiredSessions =>
                 (\A k \in DOMAIN sessions :
                    IF k \in DOMAIN sessions'
                    THEN sessions'[k] = sessions[k]
                    ELSE OlderThanTimeout(k)))]_vars

\* C30 witness: a session older than SESSION_TIMEOUT that the sweep has not
\* removed and that was used before has just been refused by
\* requireAdminSession
C30_Witness ==
    /\ resp.op = "verify" /\ resp.status = 401
    /\ resp.token \in DOMAIN minted
    /\ OlderThanTimeout(resp.token)
    /\ resp.token \notin loggedOut
    /\ \E k \in DOMAIN sessions : k # resp.token

=============================================================================
